---- MODULE Spec2Model ----
(***************************************************************************)
(* ThriftBot pricing analysis (src/thriftbot/pricing.py) over the item and *)
(* comparable stores of src/thriftbot/db.py.                               *)
(*                                                                         *)
(* Numbers.  Money is held in integer cents; intermediate products are     *)
(* held exactly as an integer numerator over a stated power of ten.  The   *)
(* code computes in binary floating point and rounds with round(x, n).     *)
(* Away from a decimal tie the float result is the nearest decimal; on a   *)
(* decimal tie (x.xx5) the float may lie on either side, so round() can    *)
(* land on either neighbour, and a comparison of two floats that are equal *)
(* as decimals can go either way.  The variable fp is the unknown but      *)
(* fixed resolution of those cases: fp[k] tells whether a tie whose upper  *)
(* neighbour has parity k is resolved upwards.                             *)
(*                                                                         *)
(* Strings that the code searches with `in` / contains() are sequences of  *)
(* one-character strings.                                                  *)
(***************************************************************************)
EXTENDS Integers, Sequences, FiniteSets, TLC

VARIABLES
    fp,           \* resolution of floating-point ties (see above)
    items,        \* InventoryItem table: sku -> row
    comparables,  \* MarketComparable table, rows in insertion order
    call,         \* the operation in progress and its inputs
    ret,          \* what it returned or raised
    prev          \* summary of the analysis that returned before this call

vars == <<fp, items, comparables, call, ret, prev>>

(***************************************************************************)
(* Bounds of the model.                                                    *)
(***************************************************************************)
MaxItems == 1
MaxStored == 2
DrawSteps == 2
MaxCost == 100
MaxPrices == 3

(***************************************************************************)
(* Arithmetic helpers.                                                     *)
(***************************************************************************)
Max2(a, b) == IF a >= b THEN a ELSE b
Min2(a, b) == IF a <= b THEN a ELSE b
Abs(a) == IF a >= 0 THEN a ELSE -a

\* round(n / d) to an integer, d > 0: nearest; on an exact tie either
\* neighbour, as fp resolves it.
RoundHalf(n, d) ==
    LET q == (2 * n + d) \div (2 * d)
    IN  IF (2 * n + d) % (2 * d) = 0 /\ ~fp[q % 2] THEN q - 1 ELSE q

\* a > b for two floats whose decimal values are a and b (same unit), one of
\* them the product of floats: decided by the decimals unless they are equal.
FloatGreater(a, b) == a > b \/ (a = b /\ fp[a % 2])

(***************************************************************************)
(* Strings as sequences of characters.                                     *)
(***************************************************************************)
UpperToLower ==
    [A |-> "a", B |-> "b", C |-> "c", D |-> "d", E |-> "e", F |-> "f",
     G |-> "g", H |-> "h", I |-> "i", J |-> "j", K |-> "k", L |-> "l",
     M |-> "m", N |-> "n", O |-> "o", P |-> "p", Q |-> "q", R |-> "r",
     S |-> "s", T |-> "t", U |-> "u", V |-> "v", W |-> "w", X |-> "x",
     Y |-> "y", Z |-> "z"]

\* str.lower()
Lower(s) ==
    [i \in 1..Len(s) |->
        IF s[i] \in DOMAIN UpperToLower THEN UpperToLower[s[i]] ELSE s[i]]

\* `sub in s` / s.contains(sub)
Contains(s, sub) ==
    \E i \in 0..(Len(s) - Len(sub)) :
        \A j \in 1..Len(sub) : s[i + j] = sub[j]

\* f"{a} {b}"
Joined(a, b) == a \o <<" ">> \o b

(***************************************************************************)
(* Category buckets, in the insertion order of the two dictionaries.       *)
(***************************************************************************)
clothing == <<"c", "l", "o", "t", "h", "i", "n", "g">>
electronics == <<"e", "l", "e", "c", "t", "r", "o", "n", "i", "c", "s">>
home_garden == <<"h", "o", "m", "e", " ", "&", " ", "g", "a", "r", "d", "e", "n">>
sports_outdoors ==
    <<"s", "p", "o", "r", "t", "s", " ", "&", " ",
      "o", "u", "t", "d", "o", "o", "r", "s">>
collectibles == <<"c", "o", "l", "l", "e", "c", "t", "i", "b", "l", "e", "s">>

\* Faulty variant: the sports & outdoors entry is (3.5, 4.5, 6.5).
category_multipliers_sports_aggressive ==
    << [key |-> clothing, conservative |-> 40, competitive |-> 50, aggressive |-> 60],
       [key |-> electronics, conservative |-> 20, competitive |-> 30, aggressive |-> 40],
       [key |-> home_garden, conservative |-> 30, competitive |-> 40, aggressive |-> 50],
       [key |-> sports_outdoors, conservative |-> 35, competitive |-> 45, aggressive |-> 65],
       [key |-> collectibles, conservative |-> 40, competitive |-> 60, aggressive |-> 80] >>

\* Fixed price multipliers, in tenths.
category_multipliers ==
    << [key |-> clothing, conservative |-> 40, competitive |-> 50, aggressive |-> 60],
       [key |-> electronics, conservative |-> 20, competitive |-> 30, aggressive |-> 40],
       [key |-> home_garden, conservative |-> 30, competitive |-> 40, aggressive |-> 50],
       [key |-> sports_outdoors, conservative |-> 35, competitive |-> 45, aggressive |-> 60],
       [key |-> collectibles, conservative |-> 40, competitive |-> 60, aggressive |-> 80] >>

\* Synthetic base-price multiplier ranges (low, high), in tenths.
category_ranges ==
    << [key |-> clothing, low |-> 40, high |-> 80],
       [key |-> electronics, low |-> 20, high |-> 50],
       [key |-> home_garden, low |-> 30, high |-> 60],
       [key |-> sports_outdoors, low |-> 35, high |-> 70],
       [key |-> collectibles, low |-> 50, high |-> 120] >>

\* category_key = item.category.lower() if item.category else "clothing"
category_key(category) == IF category = <<>> THEN clothing ELSE Lower(category)

\* Faulty variant: an entry is taken only if its key occurs in the category.
BucketIndex_key_in_category(table, category) ==
    LET ck == category_key(category)
        hits == {i \in 1..Len(table) : Contains(ck, table[i].key)}
    IN  IF hits = {} THEN 1
        ELSE CHOOSE i \in hits : \A j \in hits : i <= j

\* The loop `for key, v in table.items(): if key in category_key or
\* category_key in key: ...; break`, then the default to the clothing entry:
\* the index of the entry used.
BucketIndex(table, category) ==
    LET ck == category_key(category)
        hits == {i \in 1..Len(table) :
                    Contains(ck, table[i].key) \/ Contains(table[i].key, ck)}
    IN  IF hits = {} THEN 1
        ELSE CHOOSE i \in hits : \A j \in hits : i <= j

(***************************************************************************)
(* calculate_pricing_suggestions                                           *)
(***************************************************************************)
Strategies == <<"conservative", "competitive", "aggressive">>

\* Faulty variant: "Poor" carries the multiplier of "Fair".
condition_multiplier_poor_as_fair(condition) ==
    CASE condition = "New" -> 10
      [] condition = "Excellent" -> 9
      [] condition = "Very Good" -> 8
      [] condition = "Good" -> 7
      [] condition = "Fair" -> 6
      [] condition = "Poor" -> 6
      [] OTHER -> 7

\* Faulty variant: the multipliers of "Good" and "Fair" are exchanged.
condition_multiplier_fair_good_swapped(condition) ==
    CASE condition = "New" -> 10
      [] condition = "Excellent" -> 9
      [] condition = "Very Good" -> 8
      [] condition = "Good" -> 6
      [] condition = "Fair" -> 7
      [] condition = "Poor" -> 5
      [] OTHER -> 7

\* Faulty variant: the two tagged "New" conditions carry the multiplier of "New".
condition_multiplier_tagged_as_new(condition) ==
    CASE condition \in {"New", "New with Tags", "New without Tags"} -> 10
      [] condition = "Excellent" -> 9
      [] condition = "Very Good" -> 8
      [] condition = "Good" -> 7
      [] condition = "Fair" -> 6
      [] condition = "Poor" -> 5
      [] OTHER -> 7

\* Condition multipliers, in tenths; .get(item.condition, 0.7)
condition_multiplier(condition) ==
    CASE condition = "New" -> 10
      [] condition = "Excellent" -> 9
      [] condition = "Very Good" -> 8
      [] condition = "Good" -> 7
      [] condition = "Fair" -> 6
      [] condition = "Poor" -> 5
      [] OTHER -> 7

\* Faulty variant: the aggressive price takes the larger of its two bounds.
price_points_aggressive_max(item, market_data) ==
    LET cost == item.cost
        pr == market_data.price_range
    IN  IF pr.average > 0
        THEN [conservative |-> Max2(cost * 20, pr.average * 8),
              competitive |-> IF FloatGreater(pr.median * 10, cost * 15)
                              THEN pr.median * 10 ELSE cost * 20,
              aggressive |-> Max2(pr.average * 12, pr.max * 9)]
        ELSE LET m == category_multipliers[
                          BucketIndex(category_multipliers, item.category)]
             IN  [conservative |-> cost * m.conservative,
                  competitive |-> cost * m.competitive,
                  aggressive |-> cost * m.aggressive]

\* The three price points before the condition adjustment, in tenths of a
\* cent (cost and market data are in cents).
price_points(item, market_data) ==
    LET cost == item.cost
        pr == market_data.price_range
    IN  IF pr.average > 0
        THEN [conservative |-> Max2(cost * 20, pr.average * 8),
              competitive |-> IF FloatGreater(pr.median * 10, cost * 15)
                              THEN pr.median * 10 ELSE cost * 20,
              aggressive |-> Min2(pr.average * 12, pr.max * 9)]
        ELSE LET m == category_multipliers[
                          BucketIndex(category_multipliers, item.category)]
             IN  [conservative |-> cost * m.conservative,
                  competitive |-> cost * m.competitive,
                  aggressive |-> cost * m.aggressive]

\* After `price *= condition_multiplier`: hundredths of a cent.
condition_adjusted(item, market_data) ==
    LET p == price_points(item, market_data)
        k == condition_multiplier(item.condition)
    IN  [conservative |-> p.conservative * k,
         competitive |-> p.competitive * k,
         aggressive |-> p.aggressive * k]

\* After `price = max(price, min_price)`, min_price = cost * 1.5:
\* hundredths of a cent.
with_min_price(item, market_data) ==
    LET p == condition_adjusted(item, market_data)
        min_price == item.cost * 150
    IN  [conservative |-> Max2(p.conservative, min_price),
         competitive |-> Max2(p.competitive, min_price),
         aggressive |-> Max2(p.aggressive, min_price)]

\* f"{int((condition_multiplier - 1) * 100)}%" if condition_multiplier != 1
\* else "None".  The product is a float: (0.9 - 1) * 100 is
\* -9.999999999999998 and (0.8 - 1) * 100 is -19.999999999999996, which
\* int() truncates to -9 and -19; the other three come out as -30, -40, -50.
condition_adjustment(condition) ==
    LET k == condition_multiplier(condition)
    IN  IF k = 10 THEN "None"
        ELSE [i \in 5..9 |-> <<"-50%", "-40%", "-30%", "-19%", "-9%">>[i - 4]][k]

calculate_pricing_suggestions(item, market_data) ==
    LET p == with_min_price(item, market_data)
        avg == market_data.price_range.average
    IN  [suggested_prices |->
            [conservative |-> RoundHalf(p.conservative, 100),
             competitive |-> RoundHalf(p.competitive, 100),
             aggressive |-> RoundHalf(p.aggressive, 100)],
         market_position |->
            [below_market |-> IF avg > 0 THEN RoundHalf(avg * 8, 10) ELSE 0,
             at_market |-> IF avg > 0 THEN avg ELSE 0,
             above_market |-> IF avg > 0 THEN RoundHalf(avg * 12, 10) ELSE 0],
         condition_adjustment |-> condition_adjustment(item.condition)]

(***************************************************************************)
(* calculate_profit_scenarios                                              *)
(***************************************************************************)
\* Fee model: rates in thousandths of the price, the fixed fee in cents.
LISTING_FEE == 0
FINAL_VALUE_FEE_RATE == 100
PAYPAL_RATE == 29
PAYPAL_FIXED == 30

Title ==
    [conservative |-> "Conservative", competitive |-> "Competitive",
     aggressive |-> "Aggressive"]

\* Faulty variant: the fixed payment fee is left out of the net profit.
net_profit_exact_no_fixed_fee(price, cost) ==
    (price - cost) * 1000
    - (LISTING_FEE * 1000 + price * FINAL_VALUE_FEE_RATE + price * PAYPAL_RATE)

\* Faulty variant: the percentage part of the payment fee is left out of the
\* net profit.
net_profit_exact_no_payment_rate(price, cost) ==
    (price - cost) * 1000
    - (LISTING_FEE * 1000 + price * FINAL_VALUE_FEE_RATE + PAYPAL_FIXED * 1000)

\* Faulty variant: the net profit is taken before the final value fee.
net_profit_exact_before_final_value_fee(price, cost) ==
    (price - cost) * 1000
    - (LISTING_FEE * 1000 + price * PAYPAL_RATE + PAYPAL_FIXED * 1000)

\* net_profit before rounding, in thousandths of a cent:
\* (price - cost) - (listing_fee + price * 0.10 + price * 0.029 + 0.30)
net_profit_exact(price, cost) ==
    (price - cost) * 1000
    - (LISTING_FEE * 1000 + price * FINAL_VALUE_FEE_RATE
       + price * PAYPAL_RATE + PAYPAL_FIXED * 1000)

\* Faulty variant: a zero cost is replaced by one cent instead of short-circuiting.
roi_percentage_min_cost(price, cost) ==
    RoundHalf(net_profit_exact(price, cost), Max2(cost, 1))

\* (net_profit / cost) * 100 if cost > 0 else 0, rounded to one decimal:
\* tenths of a percent.
roi_percentage(price, cost) ==
    IF cost > 0 THEN RoundHalf(net_profit_exact(price, cost), cost) ELSE 0

\* One pass of the loop body: price and cost in cents, results in cents.
profit_scenario(strategy, price, cost) ==
    [strategy |-> Title[strategy],
     price |-> price,
     fees |->
        [listing_fee |-> LISTING_FEE,
         final_value_fee |-> RoundHalf(price * FINAL_VALUE_FEE_RATE, 1000),
         paypal_fee |->
            RoundHalf(price * PAYPAL_RATE + PAYPAL_FIXED * 1000, 1000),
         total_fees |->
            RoundHalf(LISTING_FEE * 1000 + price * FINAL_VALUE_FEE_RATE
                      + price * PAYPAL_RATE + PAYPAL_FIXED * 1000, 1000)],
     profit |->
        [gross_profit |-> price - cost,
         net_profit |-> RoundHalf(net_profit_exact(price, cost), 1000),
         roi_percentage |-> roi_percentage(price, cost)]]

\* suggested_prices.items() iterates in insertion order.
calculate_profit_scenarios(item, suggested_prices) ==
    [i \in 1..Len(Strategies) |->
        profit_scenario(Strategies[i], suggested_prices[Strategies[i]], item.cost)]

(***************************************************************************)
(* generate_pricing_recommendations                                        *)
(***************************************************************************)
books == <<"b", "o", "o", "k", "s">>
home == <<"h", "o", "m", "e">>
toys == <<"t", "o", "y", "s">>

\* Faulty variant: the table is looked up by the category as entered.
get_category_pricing_tips_no_lower(category) ==
    IF category \in {clothing, electronics, home, books, toys}
    THEN [i \in 1..3 |-> [kind |-> "category_tip", detail |-> <<category, i>>]]
    ELSE [i \in 1..2 |-> [kind |-> "generic_tip", detail |-> <<i>>]]

\* tips.get(category.lower(), [two generic tips]): the table key used and
\* the number of tips under it.
get_category_pricing_tips(category) ==
    LET key == Lower(category)
    IN  IF key \in {clothing, electronics, home, books, toys}
        THEN [i \in 1..3 |-> [kind |-> "category_tip", detail |-> <<key, i>>]]
        ELSE [i \in 1..2 |-> [kind |-> "generic_tip", detail |-> <<i>>]]

\* Faulty variant: the first scenario of minimal ROI is taken.
best_roi_index_lowest(profit_scenarios) ==
    CHOOSE i \in 1..Len(profit_scenarios) :
        /\ \A j \in 1..Len(profit_scenarios) :
              profit_scenarios[j].profit.roi_percentage
                 >= profit_scenarios[i].profit.roi_percentage
        /\ \A j \in 1..(i - 1) :
              profit_scenarios[j].profit.roi_percentage
                 > profit_scenarios[i].profit.roi_percentage

\* Faulty variant: the last scenario is taken as the best one.
best_roi_index_last(profit_scenarios) == Len(profit_scenarios)

\* max(profit_scenarios, key=roi): the first scenario of maximal ROI.
best_roi_index(profit_scenarios) ==
    CHOOSE i \in 1..Len(profit_scenarios) :
        /\ \A j \in 1..Len(profit_scenarios) :
              profit_scenarios[j].profit.roi_percentage
                 <= profit_scenarios[i].profit.roi_percentage
        /\ \A j \in 1..(i - 1) :
              profit_scenarios[j].profit.roi_percentage
                 < profit_scenarios[i].profit.roi_percentage

\* Faulty variant: the net profit is compared to zero.
low_profit_scenarios_below_zero(item, profit_scenarios) ==
    {i \in 1..Len(profit_scenarios) : profit_scenarios[i].profit.net_profit < 0}

\* [s for s in profit_scenarios if s['profit']['net_profit'] < float(item.cost)]
low_profit_scenarios(item, profit_scenarios) ==
    {i \in 1..Len(profit_scenarios) :
        profit_scenarios[i].profit.net_profit < item.cost}

generate_pricing_recommendations(item, pricing_analysis, profit_scenarios) ==
    LET best == profit_scenarios[best_roi_index(profit_scenarios)]
        low == low_profit_scenarios(item, profit_scenarios)
        market_avg == pricing_analysis.market_position.at_market
        competitive_price == pricing_analysis.suggested_prices.competitive
    IN  << [kind |-> "best_roi",
            detail |-> <<best.strategy, best.price, best.profit.roi_percentage>>] >>
        \o (IF low # {}
            THEN << [kind |-> "low_profit", detail |-> <<Cardinality(low)>>] >>
            ELSE <<>>)
        \o (IF market_avg > 0
            THEN IF FloatGreater(market_avg * 9, competitive_price * 10)
                 THEN << [kind |-> "below_market", detail |-> <<>>] >>
                 ELSE IF FloatGreater(competitive_price * 10, market_avg * 11)
                      THEN << [kind |-> "above_market", detail |-> <<>>] >>
                      ELSE <<>>
            ELSE <<>>)
        \o get_category_pricing_tips(item.category)
        \o (IF item.condition \in {"Fair", "Poor"}
            THEN << [kind |-> "flaw_photos", detail |-> <<>>] >>
            ELSE IF item.condition \in {"New", "Excellent"}
                 THEN << [kind |-> "highlight_condition", detail |-> <<>>] >>
                 ELSE <<>>)

(***************************************************************************)
(* generate_sample_comparables                                             *)
(***************************************************************************)
SAMPLE_COUNT == 7

\* uniform(lo, hi) at step t of DrawSteps, times DrawSteps.
UniformAt(lo, hi, t) == lo * DrawSteps + (hi - lo) * t

\* draw.base is the step of uniform(price_range[0], price_range[1]) and
\* draw.variation[i] the step of the i-th uniform(0.8, 1.4).  Prices are
\* round(cost * multiplier * variation, 2), in cents.
generate_sample_comparables(item, draw) ==
    LET r == category_ranges[BucketIndex(category_ranges, item.category)]
        base == item.cost * UniformAt(r.low, r.high, draw.base)
    IN  [i \in 1..SAMPLE_COUNT |->
            LET price == RoundHalf(base * UniformAt(8, 14, draw.variation[i]),
                                   100 * DrawSteps * DrawSteps)
            IN  [id |-> 0,
                 search_term |-> Joined(item.brand, item.name),
                 price |-> price,
                 total_price |-> price]]

(***************************************************************************)
(* get_market_comparables                                                  *)
(***************************************************************************)
RECURSIVE SumSeq(_)
SumSeq(s) == IF s = <<>> THEN 0 ELSE Head(s) + SumSeq(Tail(s))

RECURSIVE Sorted(_)
\* sorted(s), by insertion of the head into the sorted tail.
Sorted(s) ==
    IF s = <<>> THEN <<>>
    ELSE LET rest == Sorted(Tail(s))
             k == Cardinality({i \in 1..Len(rest) : rest[i] < Head(s)})
         IN  SubSeq(rest, 1, k) \o <<Head(s)>> \o SubSeq(rest, k + 1, Len(rest))

MinSeq(s) == CHOOSE x \in {s[i] : i \in 1..Len(s)} : \A i \in 1..Len(s) : x <= s[i]
MaxSeq(s) == CHOOSE x \in {s[i] : i \in 1..Len(s)} : \A i \in 1..Len(s) : x >= s[i]

\* round(statistics.mean(prices), 2), prices in cents
MeanRounded(prices) == RoundHalf(SumSeq(prices), Len(prices))

\* Faulty variant: the upper middle element is taken for an even count.
MedianRounded_upper_middle(prices) ==
    LET s == Sorted(prices)
    IN  s[Len(s) \div 2 + 1]

\* round(statistics.median(prices), 2), prices in cents
MedianRounded(prices) ==
    LET s == Sorted(prices)
        n == Len(s)
    IN  IF n % 2 = 1 THEN s[(n + 1) \div 2]
        ELSE RoundHalf(s[n \div 2] + s[n \div 2 + 1], 2)

price_range(prices) ==
    IF prices = <<>>
    THEN [min |-> 0, max |-> 0, average |-> 0, median |-> 0]
    ELSE [min |-> MinSeq(prices), max |-> MaxSeq(prices),
          average |-> MeanRounded(prices), median |-> MedianRounded(prices)]

\* select(MarketComparable).where(search_term.contains(term)).limit(limit),
\* rows in insertion order.  contains() becomes LIKE '%term%'; the terms and
\* stored search terms used here are lower-case and hold no % or _, for which
\* LIKE is substring containment on every database backend.
RECURSIVE SelectContains(_, _, _)
SelectContains(rows, term, limit) ==
    IF rows = <<>> \/ limit = 0 THEN <<>>
    ELSE IF Contains(Head(rows).search_term, term)
         THEN <<Head(rows)>> \o SelectContains(Tail(rows), term, limit - 1)
         ELSE SelectContains(Tail(rows), term, limit)

search_terms(item) == <<Joined(item.brand, item.name), item.brand, item.name>>

\* Faulty variant: only the first search term is queried.
stored_matches_first_term(item, limit) ==
    SelectContains(comparables, search_terms(item)[1], limit)

\* Faulty variant: the limit is applied to the accumulated rows.
stored_matches_limit_overall(item, limit) ==
    LET all == SelectContains(comparables, search_terms(item)[1], limit)
               \o SelectContains(comparables, search_terms(item)[2], limit)
               \o SelectContains(comparables, search_terms(item)[3], limit)
    IN  SubSeq(all, 1, Min2(Len(all), limit))

\* The rows the three queries accumulate, before the fallback.
stored_matches(item, limit) ==
    SelectContains(comparables, search_terms(item)[1], limit)
    \o SelectContains(comparables, search_terms(item)[2], limit)
    \o SelectContains(comparables, search_terms(item)[3], limit)

\* `synthetic` records which way the `if not comparables` branch went.
get_market_comparables(item, limit, draw) ==
    LET found == stored_matches(item, limit)
        used == IF found = <<>> THEN generate_sample_comparables(item, draw)
                ELSE found
        prices == [i \in 1..Len(used) |-> used[i].total_price]
    IN  [total_comparables |-> Len(used),
         price_range |-> price_range(prices),
         recent_sales |->
            [i \in 1..Min2(Len(used), 10) |->
                [price |-> used[i].price, total_price |-> used[i].total_price]],
         synthetic |-> (found = <<>>)]

(***************************************************************************)
(* analyze_item_pricing, calculate_break_even_price                        *)
(***************************************************************************)
\* get_item_by_sku(sku) is None
NotFound(sku) == sku \notin DOMAIN items

DEFAULT_LIMIT == 20

analyze_item_pricing(sku, draw) ==
    IF NotFound(sku) THEN [raised |-> "ValueError"]
    ELSE LET item == items[sku]
             market_data == get_market_comparables(item, DEFAULT_LIMIT, draw)
             pricing_analysis == calculate_pricing_suggestions(item, market_data)
             profit_scenarios ==
                 calculate_profit_scenarios(item, pricing_analysis.suggested_prices)
         IN  [raised |-> "none",
              value |->
                 [sku |-> sku,
                  item_info |-> [brand |-> item.brand, name |-> item.name,
                                 category |-> item.category,
                                 condition |-> item.condition,
                                 cost |-> item.cost],
                  market_data |-> market_data,
                  pricing_analysis |-> pricing_analysis,
                  profit_scenarios |-> profit_scenarios,
                  recommendations |->
                     generate_pricing_recommendations(
                         item, pricing_analysis, profit_scenarios)]]

\* fixed_fees in cents; variable_rate = 0.10 + 0.029 in thousandths.
FIXED_FEES == 30
VARIABLE_RATE == 129
MARGIN_BUFFER == 105

\* Faulty variant: the payment rate is left out of the variable rate.
calculate_break_even_price_ebay_rate_only(sku) ==
    IF NotFound(sku) THEN [raised |-> "ValueError"]
    ELSE LET cost == items[sku].cost
             rate == FINAL_VALUE_FEE_RATE
         IN  [raised |-> "none",
              value |->
                 [sku |-> sku,
                  item_cost |-> cost,
                  break_even_price |->
                     RoundHalf((cost + FIXED_FEES) * 1000, 1000 - rate),
                  break_even_with_margin |->
                     RoundHalf((cost + FIXED_FEES) * 1000 * MARGIN_BUFFER,
                               (1000 - rate) * 100),
                  fee_breakdown |->
                     [fixed_fees |-> FIXED_FEES,
                      variable_rate_percentage |-> rate,
                      estimated_fees_at_break_even |->
                         RoundHalf((cost + FIXED_FEES) * rate
                                   + FIXED_FEES * (1000 - rate),
                                   1000 - rate)]]]

calculate_break_even_price(sku) ==
    IF NotFound(sku) THEN [raised |-> "ValueError"]
    ELSE LET cost == items[sku].cost
         IN  [raised |-> "none",
              value |->
                 [sku |-> sku,
                  item_cost |-> cost,
                  break_even_price |->
                     RoundHalf((cost + FIXED_FEES) * 1000, 1000 - VARIABLE_RATE),
                  break_even_with_margin |->
                     RoundHalf((cost + FIXED_FEES) * 1000 * MARGIN_BUFFER,
                               (1000 - VARIABLE_RATE) * 100),
                  fee_breakdown |->
                     [fixed_fees |-> FIXED_FEES,
                      variable_rate_percentage |-> VARIABLE_RATE,
                      estimated_fees_at_break_even |->
                         RoundHalf((cost + FIXED_FEES) * VARIABLE_RATE
                                   + FIXED_FEES * (1000 - VARIABLE_RATE),
                                   1000 - VARIABLE_RATE)]]]

(***************************************************************************)
(* Optional fields of an item: <<>> is None, <<v>> the value v.            *)
(***************************************************************************)
None == <<>>
Some(v) == <<v>>

\* `if x`: neither None nor zero
Truthy(x) == x # None /\ x[1] # 0

\* float(x) if x else None
FloatOrNone(x) == IF Truthy(x) THEN x ELSE None

(***************************************************************************)
(* get_pricing_history, suggest_price_adjustments                          *)
(***************************************************************************)
\* Faulty variant: an unknown SKU gets an empty history instead of an error.
get_pricing_history_default_when_missing(sku) ==
    [raised |-> "none",
     value |->
        [sku |-> sku,
         current_prices |->
            IF NotFound(sku)
            THEN [suggested |-> None, listed |-> None, sold |-> None]
            ELSE [suggested |-> FloatOrNone(items[sku].suggested_price),
                  listed |-> FloatOrNone(items[sku].listed_price),
                  sold |-> FloatOrNone(items[sku].sold_price)],
         history |-> <<>>,
         performance |-> [price_changes |-> 0]]]

get_pricing_history(sku) ==
    IF NotFound(sku) THEN [raised |-> "ValueError"]
    ELSE [raised |-> "none",
          value |->
             [sku |-> sku,
              current_prices |->
                 [suggested |-> FloatOrNone(items[sku].suggested_price),
                  listed |-> FloatOrNone(items[sku].listed_price),
                  sold |-> FloatOrNone(items[sku].sold_price)],
              history |-> <<>>,
              performance |-> [price_changes |-> 0]]]

\* days_listed = 14  # Placeholder
DAYS_LISTED == 14
ADJUSTMENT_LIMIT == 10

\* The time-based rule `if days_listed > 30: ... elif days_listed > 60: ...`
\* for a listed price in cents; suggested prices are round(price * 0.9, 2)
\* and round(price * 0.8, 2).
time_based_adjustments(current_price, days_listed) ==
    IF days_listed > 30
    THEN << [type |-> "price_reduction",
             current_price |-> current_price,
             suggested_price |-> RoundHalf(current_price * 9, 10),
             urgency |-> "medium"] >>
    ELSE IF days_listed > 60
         THEN << [type |-> "aggressive_reduction",
                  current_price |-> current_price,
                  suggested_price |-> RoundHalf(current_price * 8, 10),
                  urgency |-> "high"] >>
         ELSE <<>>

\* int((current_price / market_avg - 1) * 100): the whole percent, one less
\* where the quotient is a whole percent and the float product falls short.
percent_above(current_price, market_avg) ==
    LET n == (current_price - market_avg) * 100
        q == n \div market_avg
    IN  IF n % market_avg = 0 /\ ~fp[q % 2] THEN q - 1 ELSE q

\* Faulty variant: any price above the market average is adjusted.
market_adjustments_above_average(current_price, market_avg) ==
    IF market_avg > 0 /\ current_price > market_avg
    THEN << [type |-> "market_adjustment",
             current_price |-> current_price,
             suggested_price |-> market_avg,
             percent_above |-> percent_above(current_price, market_avg),
             urgency |-> "medium"] >>
    ELSE <<>>

\* `if market_avg > 0 and current_price > market_avg * 1.2`
market_adjustments(current_price, market_avg) ==
    IF market_avg > 0 /\ FloatGreater(current_price * 10, market_avg * 12)
    THEN << [type |-> "market_adjustment",
             current_price |-> current_price,
             suggested_price |-> market_avg,
             percent_above |-> percent_above(current_price, market_avg),
             urgency |-> "medium"] >>
    ELSE <<>>

suggest_price_adjustments(sku, draw) ==
    IF NotFound(sku) THEN [raised |-> "ValueError"]
    ELSE LET item == items[sku]
             market_data == get_market_comparables(item, ADJUSTMENT_LIMIT, draw)
         IN  IF ~Truthy(item.listed_price)
             THEN [raised |-> "none",
                   value |->
                      [message |-> "Item not yet listed - no adjustments needed"]]
             ELSE LET current_price == item.listed_price[1] IN
                  [raised |-> "none",
                   value |->
                      [sku |-> sku,
                       current_price |-> current_price,
                       days_listed |-> DAYS_LISTED,
                       suggestions |->
                          time_based_adjustments(current_price, DAYS_LISTED)
                          \o market_adjustments(current_price,
                                                market_data.price_range.average),
                       market_context |-> market_data.price_range]]

(***************************************************************************)
(* update_item_pricing, _calculate_fees_and_profit                         *)
(* Prices and the cost of a row are in cents.  The fee and profit fields   *)
(* hold the Decimal results as computed, without rounding, in thousandths  *)
(* of a cent; roi_percentage holds the quotient num / den in tenths of a   *)
(* percent, with num in thousandths of a cent and den in cents.            *)
(***************************************************************************)
\* _calculate_fees_and_profit(item): returns at once when sold_price is None
\* or zero; roi_percentage is assigned only when the cost is positive.
calculate_fees_and_profit(item) ==
    IF ~Truthy(item.sold_price) THEN item
    ELSE LET sold_price == item.sold_price[1]
             listing_fee == LISTING_FEE * 1000
             final_value_fee == sold_price * FINAL_VALUE_FEE_RATE
             paypal_fee == sold_price * PAYPAL_RATE + PAYPAL_FIXED * 1000
             total_fees == listing_fee + final_value_fee + paypal_fee
             gross_profit == (sold_price - item.cost) * 1000
             net_profit == gross_profit - total_fees
         IN  [item EXCEPT
                 !.listing_fee = Some(listing_fee),
                 !.final_value_fee = Some(final_value_fee),
                 !.paypal_fee = Some(paypal_fee),
                 !.total_fees = Some(total_fees),
                 !.gross_profit = Some(gross_profit),
                 !.net_profit = Some(net_profit),
                 !.roi_percentage =
                     IF item.cost > 0
                     THEN Some([num |-> net_profit, den |-> item.cost])
                     ELSE item.roi_percentage]

\* datetime.utcnow(), as far as the model tells times apart
utcnow == "utcnow"

\* update_item_pricing over the table `store`: the result and the table
\* after the commit.
update_item_pricing(store, sku, suggested_price, listed_price, sold_price) ==
    IF sku \notin DOMAIN store THEN [value |-> FALSE, store |-> store]
    ELSE LET item == store[sku]
             suggested ==
                 IF suggested_price # None
                 THEN [item EXCEPT !.suggested_price = suggested_price]
                 ELSE item
             listed ==
                 IF listed_price # None
                 THEN [suggested EXCEPT !.listed_price = listed_price]
                 ELSE suggested
             sold ==
                 IF sold_price # None
                 THEN calculate_fees_and_profit(
                          [listed EXCEPT !.sold_price = sold_price,
                                         !.status = "sold",
                                         !.sold_at = Some(utcnow)])
                 ELSE listed
         IN  [value |-> TRUE, store |-> [store EXCEPT ![sku] = sold]]

(***************************************************************************)
(* sync_orders_with_inventory                                              *)
(* An order is its sequence of line items; a line item has an optional     *)
(* sku, an optional total value in cents, and a flag telling that the      *)
(* total value is not a number (float() raises on it).                     *)
(***************************************************************************)
\* float(line_item.get("total", {}).get("value", 0))
line_item_sold_price(line_item) ==
    IF line_item.total = None THEN Some(0) ELSE line_item.total

\* The loop over the line items of one order: the table after it, the
\* number of items updated, and whether an exception left the loop.
RECURSIVE sync_line_items(_, _, _)
sync_line_items(line_items, store, items_updated) ==
    IF line_items = <<>>
    THEN [store |-> store, items_updated |-> items_updated, raised |-> FALSE]
    ELSE LET line_item == Head(line_items) IN
         IF line_item.sku = None \/ line_item.sku[1] \notin DOMAIN store
         THEN sync_line_items(Tail(line_items), store, items_updated)
         ELSE IF line_item.malformed
         THEN [store |-> store, items_updated |-> items_updated,
               raised |-> TRUE]
         ELSE sync_line_items(
                  Tail(line_items),
                  update_item_pricing(store, line_item.sku[1], None, None,
                                      line_item_sold_price(line_item)).store,
                  items_updated + 1)

\* The loop over the orders: an exception within an order is recorded in
\* errors and the next order is processed.
RECURSIVE sync_orders(_, _, _)
sync_orders(orders, store, sync_results) ==
    IF orders = <<>> THEN [store |-> store, sync_results |-> sync_results]
    ELSE LET order == Head(orders)
             done == sync_line_items(order.lineItems, store,
                                     sync_results.items_updated)
         IN  sync_orders(
                 Tail(orders), done.store,
                 [orders_processed |->
                      IF done.raised THEN sync_results.orders_processed
                      ELSE sync_results.orders_processed + 1,
                  items_updated |-> done.items_updated,
                  errors |->
                      IF done.raised
                      THEN Append(sync_results.errors, order.orderId)
                      ELSE sync_results.errors])

\* sync_orders_with_inventory: fetched is whether client.get_orders returned.
sync_orders_with_inventory(store, fetched, orders) ==
    IF ~fetched
    THEN [store |-> store,
          value |-> [success |-> FALSE, message |-> "Failed to sync orders"]]
    ELSE LET done == sync_orders(orders, store,
                                 [orders_processed |-> 0, items_updated |-> 0,
                                  errors |-> <<>>])
         IN  [store |-> done.store, value |-> done.sync_results]

(***************************************************************************)
(* run_pipeline                                                            *)
(* The photo, content and export collaborators are taken by their          *)
(* outcome; the pricing step runs analyze_item_pricing and                 *)
(* update_item_pricing, each of which can also raise for a reason of the   *)
(* database.  `echoed` holds the step banners printed, in order.           *)
(***************************************************************************)
PhotoOutcomes == {"processed", "no_photos", "raises"}
ContentOutcomes == {"generated", "raises"}
PricingOutcomes == {"runs", "analysis_raises", "update_raises"}
ExportOutcomes == {"exported", "raises"}

\* Step 1: photo processing
photo_step(results, skip_photos, outcome) ==
    IF skip_photos
    THEN [results EXCEPT
             !.steps_skipped = Append(@, "photo_processing")]
    ELSE LET tried == [results EXCEPT !.echoed = Append(@, "Step 1")] IN
         CASE outcome = "processed" ->
                 [tried EXCEPT
                     !.steps_completed = Append(@, "photo_processing")]
           [] outcome = "no_photos" ->
                 [tried EXCEPT
                     !.steps_skipped = Append(@, "photo_processing")]
           [] outcome = "raises" ->
                 [tried EXCEPT !.errors = Append(@, "Photo processing")]

\* Step 2: AI content generation
content_step(results, skip_ai, outcome) ==
    IF skip_ai
    THEN [results EXCEPT !.steps_skipped = Append(@, "ai_content")]
    ELSE LET tried == [results EXCEPT !.echoed = Append(@, "Step 2")] IN
         IF outcome = "generated"
         THEN [tried EXCEPT !.steps_completed = Append(@, "ai_content")]
         ELSE [tried EXCEPT !.errors = Append(@, "AI content")]

\* The one element of a set of one element.
Only(S) == CHOOSE x \in S : TRUE

\* What the pricing step adds to pipeline_results["pricing"].
pricing_summary(competitive_price, best_roi) ==
    [suggested_price |-> competitive_price,
     best_roi_strategy |-> best_roi.strategy,
     best_roi_price |-> best_roi.price,
     best_roi_percentage |-> best_roi.profit.roi_percentage]

\* Faulty variant: the suggested price is stored before the analysis is
\* known to have succeeded, as twice the cost when it has not.
pricing_step_storing_first(results, skip_pricing, sku, outcome, draw) ==
    IF skip_pricing
    THEN [results EXCEPT !.steps_skipped = Append(@, "pricing_analysis")]
    ELSE Only({
         LET tried == [results EXCEPT !.echoed = Append(@, "Step 3")] IN
         IF analysis.raised # "none"
         THEN [tried EXCEPT !.errors = Append(@, "Pricing analysis")]
         ELSE
         LET competitive_price ==
                 analysis.value.pricing_analysis.suggested_prices.competitive
             stored == update_item_pricing(
                           tried.store, sku,
                           IF outcome = "runs" THEN Some(competitive_price)
                           ELSE Some(2 * items[sku].cost),
                           None, None).store
         IN  IF outcome # "runs"
             THEN [tried EXCEPT !.errors = Append(@, "Pricing analysis"),
                                !.store = stored]
             ELSE [tried EXCEPT
                    !.store = stored,
                    !.steps_completed = Append(@, "pricing_analysis"),
                    !.pricing =
                        Some(pricing_summary(
                                 competitive_price,
                                 analysis.value.profit_scenarios[
                                     best_roi_index(
                                         analysis.value.profit_scenarios)]))]
         : analysis \in {analyze_item_pricing(sku, draw)}})

\* Step 3: pricing analysis.  The price is stored before the step is
\* recorded; between the two the code only prints and picks the best ROI
\* of the three scenarios.  The analysis is made once.
pricing_step(results, skip_pricing, sku, outcome, draw) ==
    IF skip_pricing
    THEN [results EXCEPT !.steps_skipped = Append(@, "pricing_analysis")]
    ELSE Only({
         LET tried == [results EXCEPT !.echoed = Append(@, "Step 3")] IN
         IF analysis.raised # "none" \/ outcome # "runs"
         THEN [tried EXCEPT !.errors = Append(@, "Pricing analysis")]
         ELSE
         LET competitive_price ==
                 analysis.value.pricing_analysis.suggested_prices.competitive
         IN  [tried EXCEPT
                 !.store = update_item_pricing(tried.store, sku,
                                               Some(competitive_price),
                                               None, None).store,
                 !.steps_completed = Append(@, "pricing_analysis"),
                 !.pricing =
                     Some(pricing_summary(
                              competitive_price,
                              analysis.value.profit_scenarios[
                                  best_roi_index(
                                      analysis.value.profit_scenarios)]))]
         : analysis \in {analyze_item_pricing(sku, draw)}})

\* Step 4: the export, when asked for
export_step(results, auto_export, outcome) ==
    IF ~auto_export THEN results
    ELSE LET tried == [results EXCEPT !.echoed = Append(@, "Step 4")] IN
         IF outcome = "exported"
         THEN [tried EXCEPT !.steps_completed = Append(@, "csv_export")]
         ELSE [tried EXCEPT !.errors = Append(@, "CSV export")]

\* run_pipeline: the four steps one after the other, each on the results of
\* the one before.
run_pipeline(sku, flags, outcome, draw) ==
    Only({export_step(pricing, flags.auto_export, outcome.export) :
          pricing \in
            {pricing_step(content, flags.skip_pricing, sku, outcome.pricing,
                          draw) :
             content \in
               {content_step(photos, flags.skip_ai, outcome.content) :
                photos \in
                  {photo_step(started, flags.skip_photos, outcome.photos) :
                   started \in
                     {[sku |-> sku, steps_completed |-> <<>>,
                       steps_skipped |-> <<>>, errors |-> <<>>,
                       pricing |-> None, echoed |-> <<>>,
                       store |-> items]}}}}})

(***************************************************************************)
(* create_ebay_listing_from_sku                                            *)
(* The remote service is taken by the outcome of each request; `requests`  *)
(* holds the requests sent to it, in order.                                *)
(***************************************************************************)
InventoryOutcomes == {"created", "raises"}
OfferOutcomes == {"offer_id", "no_offer_id", "raises"}
PublishOutcomes == {"listing_id", "no_listing_id", "raises"}

\* The identifiers the remote service hands out for a SKU.
OfferIdOf(sku) == <<"offer", sku>>
ListingIdOf(sku) == <<"listing", sku>>

\* _build_ebay_listing_data, as far as the price of the offer:
\* float(item.suggested_price) if item.suggested_price else float(item.cost) * 2
build_ebay_listing_data(sku, item) ==
    [inventory_item |-> [sku |-> sku, condition |-> item.condition],
     offer |-> [price |-> IF Truthy(item.suggested_price)
                          THEN item.suggested_price[1] ELSE item.cost * 2]]

\* Faulty variant: the offer is published whether or not an offerId came back.
create_ebay_listing_from_sku_unchecked_offer(sku, client_given, remote) ==
    IF ~client_given /\ ~remote.credentials
    THEN [raised |-> "ValueError", requests |-> <<>>]
    ELSE IF NotFound(sku)
    THEN [raised |-> "ValueError", requests |-> <<>>]
    ELSE
    LET listing_data == build_ebay_listing_data(sku, items[sku])
        failed(requests) ==
            [raised |-> "none", requests |-> requests,
             value |-> [success |-> FALSE, sku |-> sku,
                        message |-> "Failed to create listing"]]
        step1 == <<[request |-> "create_inventory_item", sku |-> sku]>>
        step2 == Append(step1, [request |-> "create_offer", sku |-> sku,
                                price |-> listing_data.offer.price])
        step3 == Append(step2, [request |-> "publish_offer",
                                offer_id |-> OfferIdOf(sku)])
    IN  IF remote.inventory = "raises" THEN failed(step1)
        ELSE IF remote.offer = "raises" THEN failed(step2)
        ELSE IF FALSE THEN failed(step2)
        ELSE IF remote.publish = "raises" THEN failed(step3)
        ELSE [raised |-> "none", requests |-> step3,
              value |-> [success |-> TRUE, sku |-> sku,
                         offer_id |-> OfferIdOf(sku),
                         listing_id |->
                            IF remote.publish = "listing_id"
                            THEN Some(ListingIdOf(sku)) ELSE None,
                         message |-> "Listing created successfully"]]

\* create_ebay_listing_from_sku: without a client one is constructed, which
\* raises when the credentials are missing; an unknown SKU raises; every
\* exception of the three requests is turned into a result.
create_ebay_listing_from_sku(sku, client_given, remote) ==
    IF ~client_given /\ ~remote.credentials
    THEN [raised |-> "ValueError", requests |-> <<>>]
    ELSE IF NotFound(sku)
    THEN [raised |-> "ValueError", requests |-> <<>>]
    ELSE
    LET listing_data == build_ebay_listing_data(sku, items[sku])
        failed(requests) ==
            [raised |-> "none", requests |-> requests,
             value |-> [success |-> FALSE, sku |-> sku,
                        message |-> "Failed to create listing"]]
        step1 == <<[request |-> "create_inventory_item", sku |-> sku]>>
        step2 == Append(step1, [request |-> "create_offer", sku |-> sku,
                                price |-> listing_data.offer.price])
        step3 == Append(step2, [request |-> "publish_offer",
                                offer_id |-> OfferIdOf(sku)])
    IN  IF remote.inventory = "raises" THEN failed(step1)
        ELSE IF remote.offer = "raises" THEN failed(step2)
        ELSE IF remote.offer = "no_offer_id" THEN failed(step2)
        ELSE IF remote.publish = "raises" THEN failed(step3)
        ELSE [raised |-> "none", requests |-> step3,
              value |-> [success |-> TRUE, sku |-> sku,
                         offer_id |-> OfferIdOf(sku),
                         listing_id |->
                            IF remote.publish = "listing_id"
                            THEN Some(ListingIdOf(sku)) ELSE None,
                         message |-> "Listing created successfully"]]

(***************************************************************************)
(* Inputs of the direct calls.                                             *)
(***************************************************************************)
Conditions ==
    {"New", "New with Tags", "New without Tags", "Excellent", "Very Good",
     "Good", "Fair", "Poor"}

brandA == <<"a">>
nameB == <<"b">>

FnCosts == {0, 1, 2, 375, 500, 1000}
FnCategories ==
    { <<"C", "l", "o", "t", "h", "i", "n", "g">>, electronics,
      <<"b", "o", "o", "k", "s">>,
      <<>>, <<"s">>, <<"t", "o", "y", "s">>, <<"h", "o", "m", "e">>,
      <<"G", "a", "r", "d", "e", "n">>,
      <<"M", "e", "n", "'", "s", " ", "C", "l", "o", "t", "h", "i", "n", "g">>,
      <<"H", "o", "m", "e", " ", "&", " ", "G", "a", "r", "d", "e", "n">>,
      <<"S", "p", "o", "r", "t", "s", " ", "&", " ",
        "O", "u", "t", "d", "o", "o", "r", "s">>,
      <<"O", "l", "d", " ">> \o collectibles \o <<" ", "&", " ">> \o electronics }
FnItems ==
    [cost : FnCosts, category : FnCategories, condition : Conditions,
     brand : {brandA}, name : {nameB}]

MarketCents == {0, 3, 750, 1000, 2000}
FnMarketData ==
    {md \in [total_comparables : {7},
             price_range : [min : MarketCents, max : MarketCents,
                            average : MarketCents, median : MarketCents]] :
        /\ md.price_range.min <= md.price_range.median
        /\ md.price_range.median <= md.price_range.max
        /\ md.price_range.min <= md.price_range.average
        /\ md.price_range.average <= md.price_range.max}

FnPrices == {0, 1, 4, 500, 1003, 1004, 1100, 2000}
FnSuggestedPrices ==
    [conservative : FnPrices, competitive : FnPrices, aggressive : FnPrices]

\* The steps of the seven variation draws.  The callers modelled reduce the
\* sample to its minimum, maximum, mean and median, which do not depend on
\* the order of the draws, so the draws are enumerated in nondecreasing order.
VariationDraws ==
    {v \in [1..SAMPLE_COUNT -> 0..DrawSteps] :
        \A i \in 1..(SAMPLE_COUNT - 1) : v[i] <= v[i + 1]}
Draws == [base : 0..DrawSteps, variation : VariationDraws]

\* The draws of the calls over the stores: k draws at the low end of
\* uniform(0.8, 1.4) and the rest at the high end, for every k.
SplitDraws ==
    [base : 0..DrawSteps,
     variation : {[i \in 1..SAMPLE_COUNT |-> IF i <= k THEN 0 ELSE DrawSteps] :
                     k \in 0..SAMPLE_COUNT}]
NoDraw == [base |-> 0, variation |-> [i \in 1..SAMPLE_COUNT |-> 0]]

\* Items and comparables of the store.
\* The SKUs asked for: those the store can hold and one it never holds.
Skus == 1..(MaxItems + 1)
StoreItems ==
    [cost : {0, 500, 1000},
     category : { <<"C", "l", "o", "t", "h", "i", "n", "g">>, electronics },
     condition : {"Good"},
     brand : {brandA}, name : {nameB},
     suggested_price : {None}, listed_price : {None}, sold_price : {None},
     status : {"inventory"}, sold_at : {None},
     listing_fee : {None}, final_value_fee : {None}, paypal_fee : {None},
     total_fees : {None}, gross_profit : {None}, net_profit : {None},
     roi_percentage : {None}]

\* Listed prices and days listed of the price-adjustment rules.
ListedPrices == {1, 995, 1000, 2500}
DaysListed == {0, 14, 30, 31, 45, 60, 61, 90}
StoredTerms == { Joined(brandA, nameB), brandA, <<"c">> }
StoredPrices == {0, 2000}

NoCall == [op |-> "none"]
NoRet == [raised |-> "none"]

(***************************************************************************)
(* Direct calls of the pure functions.                                     *)
(***************************************************************************)
FnInit ==
    /\ fp \in [0..1 -> BOOLEAN]
    /\ items = <<>>
    /\ comparables = <<>>
    /\ call = NoCall
    /\ ret = NoRet
    /\ prev = NoCall

FnPricingSuggestions ==
    /\ call = NoCall
    /\ \E item \in FnItems, md \in FnMarketData :
        \* the category is read only when the average is 0
        /\ md.price_range.average = 0 \/ item.category = electronics
        /\ call' = [op |-> "calculate_pricing_suggestions",
                    item |-> item, market_data |-> md]
        /\ ret' = [raised |-> "none",
                   value |-> calculate_pricing_suggestions(item, md)]
    /\ UNCHANGED <<fp, items, comparables, prev>>

FnProfitScenarios ==
    /\ call = NoCall
    /\ \E item \in FnItems, prices \in FnSuggestedPrices :
        /\ item.category = electronics
        /\ item.condition = "Good"
        /\ call' = [op |-> "calculate_profit_scenarios",
                    item |-> item, suggested_prices |-> prices]
        /\ ret' = [raised |-> "none",
                   value |-> calculate_profit_scenarios(item, prices)]
    /\ UNCHANGED <<fp, items, comparables, prev>>

FnSampleComparables ==
    /\ call = NoCall
    /\ \E item \in FnItems, draw \in Draws :
        /\ item.condition = "Good"
        /\ draw \in SplitDraws \/ item.category \in {electronics, books}
        /\ call' = [op |-> "generate_sample_comparables",
                    item |-> item, draw |-> draw]
        /\ ret' = [raised |-> "none",
                   value |-> generate_sample_comparables(item, draw)]
    /\ UNCHANGED <<fp, items, comparables, prev>>

\* Direct calls of generate_pricing_recommendations on the scenarios of
\* calculate_profit_scenarios: every combination of prices for one category
\* and condition, and every category and condition for one combination.
RecommendationInputs ==
    [item : {item \in FnItems :
                item.category = electronics /\ item.condition = "Good"},
     suggested_prices : FnSuggestedPrices,
     at_market : {0, 1000}]
    \cup
    [item : {item \in FnItems : item.cost = 500},
     suggested_prices : {[conservative |-> 1004, competitive |-> 1100,
                          aggressive |-> 2000]},
     at_market : {1000}]

FnRecommendations ==
    /\ call = NoCall
    /\ \E in \in RecommendationInputs :
        LET pricing_analysis ==
                [suggested_prices |-> in.suggested_prices,
                 market_position |->
                    [below_market |-> RoundHalf(in.at_market * 8, 10),
                     at_market |-> in.at_market,
                     above_market |-> RoundHalf(in.at_market * 12, 10)]]
            profit_scenarios ==
                calculate_profit_scenarios(in.item, in.suggested_prices)
        IN  /\ call' = [op |-> "generate_pricing_recommendations",
                        item |-> in.item,
                        pricing_analysis |-> pricing_analysis,
                        profit_scenarios |-> profit_scenarios]
            /\ ret' = [raised |-> "none",
                       value |-> generate_pricing_recommendations(
                                     in.item, pricing_analysis, profit_scenarios)]
    /\ UNCHANGED <<fp, items, comparables, prev>>

\* The statistics of get_market_comparables over a list of total prices.
StatPrices == {0, 1, 2, 1000, 2000, 3000}
PriceLists == UNION {[1..n -> StatPrices] : n \in 0..MaxPrices}

FnPriceRange ==
    /\ call = NoCall
    /\ \E prices \in PriceLists :
        /\ call' = [op |-> "price_range", prices |-> prices]
        /\ ret' = [raised |-> "none", value |-> price_range(prices)]
    /\ UNCHANGED <<fp, items, comparables, prev>>

\* The time-based rule of suggest_price_adjustments with the number of days
\* supplied, where the function itself has the placeholder DAYS_LISTED.
FnTimeBasedAdjustments ==
    /\ call = NoCall
    /\ \E current_price \in ListedPrices, days_listed \in DaysListed :
        /\ call' = [op |-> "time_based_adjustments",
                    current_price |-> current_price,
                    days_listed |-> days_listed]
        /\ ret' = [raised |-> "none",
                   value |-> time_based_adjustments(current_price, days_listed)]
    /\ UNCHANGED <<fp, items, comparables, prev>>

Return ==
    /\ call # NoCall
    /\ call' = NoCall
    /\ ret' = NoRet
    /\ UNCHANGED <<fp, items, comparables, prev>>

FnNext ==
    \/ FnPricingSuggestions
    \/ FnProfitScenarios
    \/ FnSampleComparables
    \/ FnRecommendations
    \/ FnTimeBasedAdjustments
    \/ FnPriceRange
    \/ Return

FnSpec == FnInit /\ [][FnNext]_vars

(***************************************************************************)
(* The program over its stores.                                            *)
(***************************************************************************)
Init ==
    /\ fp \in [0..1 -> BOOLEAN]
    /\ items = <<>>
    /\ comparables = <<>>
    /\ call = NoCall
    /\ ret = NoRet
    /\ prev = NoCall

\* add_item_to_inventory: sku is unique in the table.
AddItem ==
    /\ call = NoCall
    /\ Cardinality(DOMAIN items) < MaxItems
    /\ \E item \in StoreItems :
        LET sku == Cardinality(DOMAIN items) + 1
        IN  items' = [s \in DOMAIN items \cup {sku} |->
                         IF s = sku THEN item ELSE items[s]]
    /\ UNCHANGED <<fp, comparables, call, ret, prev>>

\* add_market_comparable, as update_market_data_from_research calls it.
AddMarketComparable ==
    /\ call = NoCall
    /\ Len(comparables) < MaxStored
    /\ \E term \in StoredTerms, price \in StoredPrices :
        comparables' =
            Append(comparables,
                   [id |-> Len(comparables) + 1, search_term |-> term,
                    price |-> price, total_price |-> price])
    /\ UNCHANGED <<fp, items, call, ret, prev>>

\* The draws a call consumes: none unless the synthetic generator runs.
DrawsFor(sku) ==
    IF ~NotFound(sku) /\ stored_matches(items[sku], DEFAULT_LIMIT) = <<>>
    THEN SplitDraws ELSE {NoDraw}

\* Faulty variant: the synthetic comparables of a call are added to the store.
AnalyzeItemPricing_storing_samples ==
    /\ call = NoCall
    /\ \E sku \in Skus : \E draw \in DrawsFor(sku) :
        /\ call' = [op |-> "analyze_item_pricing", sku |-> sku, draw |-> draw]
        /\ ret' = analyze_item_pricing(sku, draw)
        /\ comparables' =
              IF ret'.raised = "none" /\ ret'.value.market_data.synthetic
              THEN comparables \o generate_sample_comparables(items[sku], draw)
              ELSE comparables
    /\ UNCHANGED <<fp, items, prev>>

AnalyzeItemPricing ==
    /\ call = NoCall
    /\ \E sku \in Skus : \E draw \in DrawsFor(sku) :
        /\ call' = [op |-> "analyze_item_pricing", sku |-> sku, draw |-> draw]
        /\ ret' = analyze_item_pricing(sku, draw)
    /\ UNCHANGED <<fp, items, comparables, prev>>

CalculateBreakEvenPrice ==
    /\ call = NoCall
    /\ \E sku \in Skus :
        /\ call' = [op |-> "calculate_break_even_price", sku |-> sku]
        /\ ret' = calculate_break_even_price(sku)
    /\ UNCHANGED <<fp, items, comparables, prev>>

\* The draws suggest_price_adjustments consumes: it returns before the
\* comparable lookup for an item that is not listed.
AdjustmentDrawsFor(sku) ==
    IF /\ ~NotFound(sku)
       /\ Truthy(items[sku].listed_price)
       /\ stored_matches(items[sku], ADJUSTMENT_LIMIT) = <<>>
    THEN SplitDraws ELSE {NoDraw}

SuggestPriceAdjustments ==
    /\ call = NoCall
    /\ \E sku \in Skus : \E draw \in AdjustmentDrawsFor(sku) :
        /\ call' = [op |-> "suggest_price_adjustments", sku |-> sku, draw |-> draw]
        /\ ret' = suggest_price_adjustments(sku, draw)
    /\ UNCHANGED <<fp, items, comparables, prev>>

GetPricingHistory ==
    /\ call = NoCall
    /\ \E sku \in Skus :
        /\ call' = [op |-> "get_pricing_history", sku |-> sku]
        /\ ret' = get_pricing_history(sku)
    /\ UNCHANGED <<fp, items, comparables, prev>>

Next ==
    \/ AddItem
    \/ AddMarketComparable
    \/ AnalyzeItemPricing
    \/ CalculateBreakEvenPrice
    \/ SuggestPriceAdjustments
    \/ GetPricingHistory
    \/ Return

Spec == Init /\ [][Next]_vars

(***************************************************************************)
(* The end-to-end scenario: the same item in its Good and Fair variants,   *)
(* no stored comparables, analysed one after the other.                    *)
(***************************************************************************)
VariantItem(condition) ==
    [cost |-> 500, category |-> clothing, condition |-> condition,
     brand |-> brandA, name |-> nameB]

VariantInit ==
    /\ fp \in [0..1 -> BOOLEAN]
    /\ items = <<VariantItem("Good"), VariantItem("Fair")>>
    /\ comparables = <<>>
    /\ call = NoCall
    /\ ret = NoRet
    /\ prev = NoCall

VariantAnalyze ==
    /\ call = NoCall
    /\ \E sku \in DOMAIN items : \E draw \in DrawsFor(sku) :
        /\ call' = [op |-> "analyze_item_pricing", sku |-> sku, draw |-> draw]
        /\ ret' = analyze_item_pricing(sku, draw)
    /\ UNCHANGED <<fp, items, comparables, prev>>

\* The analysis returns; its market data and prices are kept for comparison.
VariantReturn ==
    /\ call # NoCall
    /\ prev' = [op |-> call.op,
                condition |-> ret.value.item_info.condition,
                synthetic |-> ret.value.market_data.synthetic,
                price_range |-> ret.value.market_data.price_range,
                suggested_prices |-> ret.value.pricing_analysis.suggested_prices]
    /\ call' = NoCall
    /\ ret' = NoRet
    /\ UNCHANGED <<fp, items, comparables>>

VariantNext == VariantAnalyze \/ VariantReturn

VariantSpec == VariantInit /\ [][VariantNext]_vars

(***************************************************************************)
(* Analyses, price adjustments and price history of one listed item.       *)
(***************************************************************************)
ListingInit ==
    /\ fp \in [0..1 -> BOOLEAN]
    /\ \E cost \in {500, 1000}, listed_price \in ListedPrices :
          items = <<[cost |-> cost, category |-> electronics,
                     condition |-> "Good", brand |-> brandA, name |-> nameB,
                     suggested_price |-> Some(listed_price),
                     listed_price |-> Some(listed_price),
                     sold_price |-> None,
                     status |-> "inventory", sold_at |-> None,
                     listing_fee |-> None, final_value_fee |-> None,
                     paypal_fee |-> None, total_fees |-> None,
                     gross_profit |-> None, net_profit |-> None,
                     roi_percentage |-> None]>>
    /\ comparables = <<>>
    /\ call = NoCall
    /\ ret = NoRet
    /\ prev = NoCall

ListingNext ==
    \/ AddMarketComparable
    \/ AnalyzeItemPricing
    \/ SuggestPriceAdjustments
    \/ GetPricingHistory
    \/ Return

ListingSpec == ListingInit /\ [][ListingNext]_vars

(***************************************************************************)
(* get_market_comparables called for one stored item, with limits that     *)
(* the stored rows can exceed.                                             *)
(***************************************************************************)
Limits == {1, 2, DEFAULT_LIMIT}

LookupInit ==
    /\ fp \in [0..1 -> BOOLEAN]
    /\ \E item \in StoreItems : items = <<item>>
    /\ comparables = <<>>
    /\ call = NoCall
    /\ ret = NoRet
    /\ prev = NoCall

GetMarketComparables ==
    /\ call = NoCall
    /\ \E sku \in DOMAIN items, limit \in Limits :
        \E draw \in IF stored_matches(items[sku], limit) = <<>>
                     THEN SplitDraws ELSE {NoDraw} :
            /\ call' = [op |-> "get_market_comparables", sku |-> sku,
                        limit |-> limit, draw |-> draw]
            /\ ret' = [raised |-> "none",
                       value |-> get_market_comparables(items[sku], limit, draw)]
    /\ UNCHANGED <<fp, items, comparables, prev>>

LookupNext ==
    \/ AddMarketComparable
    \/ GetMarketComparables
    \/ Return

LookupSpec == LookupInit /\ [][LookupNext]_vars

(***************************************************************************)
(* The break-even calculator over a store that holds one item, for every   *)
(* cost up to MaxCost cents and two larger ones.                           *)
(***************************************************************************)
BreakEvenCosts == 0..MaxCost \cup {500, 1000}

BreakEvenInit ==
    /\ fp \in [0..1 -> BOOLEAN]
    /\ \E cost \in BreakEvenCosts :
          items = <<[cost |-> cost, category |-> clothing, condition |-> "Good",
                     brand |-> brandA, name |-> nameB]>>
    /\ comparables = <<>>
    /\ call = NoCall
    /\ ret = NoRet
    /\ prev = NoCall

BreakEvenNext ==
    \/ CalculateBreakEvenPrice
    \/ Return

BreakEvenSpec == BreakEvenInit /\ [][BreakEvenNext]_vars

(***************************************************************************)
(* Sales: items are added, priced, listed and sold, by update_item_pricing *)
(* directly and through the order synchronisation.                         *)
(***************************************************************************)
SaleItems ==
    [cost : {0, 500}, category : {electronics}, condition : {"Good"},
     brand : {brandA}, name : {nameB},
     suggested_price : {None}, listed_price : {None}, sold_price : {None},
     status : {"inventory"}, sold_at : {None},
     listing_fee : {None}, final_value_fee : {None}, paypal_fee : {None},
     total_fees : {None}, gross_profit : {None}, net_profit : {None},
     roi_percentage : {None}]

SalePrices == {0, 1004, 1005}
OfferedPrices == {None, Some(1500)}

LineItems ==
    [sku : {None} \cup {Some(sku) : sku \in Skus},
     total : {None} \cup {Some(price) : price \in SalePrices},
     malformed : {FALSE}]
    \cup [sku : {Some(1)}, total : {Some(1005)}, malformed : {TRUE}]

\* No order, one order of one line item, and two orders of which the first
\* holds a total that is not a number.
OrderLists ==
    {<<>>}
    \cup {<<[orderId |-> 1, lineItems |-> <<line_item>>]>> :
              line_item \in LineItems}
    \cup {<<[orderId |-> 1,
             lineItems |-> <<[sku |-> Some(1), total |-> Some(1005),
                              malformed |-> TRUE]>>],
            [orderId |-> 2,
             lineItems |-> <<[sku |-> Some(1), total |-> Some(price),
                              malformed |-> FALSE]>>]>> :
              price \in {0, 1004}}

SaleInit ==
    /\ fp \in [0..1 -> BOOLEAN]
    /\ items = <<>>
    /\ comparables = <<>>
    /\ call = NoCall
    /\ ret = NoRet
    /\ prev = NoCall

\* add_item_to_inventory with the costs of the sale scenario.
SaleAddItem ==
    /\ call = NoCall
    /\ Cardinality(DOMAIN items) < MaxItems
    /\ \E item \in SaleItems :
        LET sku == Cardinality(DOMAIN items) + 1
        IN  items' = [s \in DOMAIN items \cup {sku} |->
                         IF s = sku THEN item ELSE items[s]]
    /\ UNCHANGED <<fp, comparables, call, ret, prev>>

UpdateItemPricing ==
    /\ call = NoCall
    /\ \E sku \in Skus, suggested_price \in OfferedPrices,
          listed_price \in OfferedPrices,
          sold_price \in {None} \cup {Some(price) : price \in SalePrices} :
        LET done == update_item_pricing(items, sku, suggested_price,
                                        listed_price, sold_price)
        IN  /\ call' = [op |-> "update_item_pricing", sku |-> sku,
                        suggested_price |-> suggested_price,
                        listed_price |-> listed_price,
                        sold_price |-> sold_price]
            /\ ret' = [raised |-> "none", value |-> done.value]
            /\ items' = done.store
    /\ UNCHANGED <<fp, comparables, prev>>

SyncOrdersWithInventory ==
    /\ call = NoCall
    /\ \E fetched \in BOOLEAN, orders \in OrderLists :
        LET done == sync_orders_with_inventory(items, fetched, orders)
        IN  /\ fetched \/ orders = <<>>
            /\ call' = [op |-> "sync_orders_with_inventory",
                        fetched |-> fetched, orders |-> orders]
            /\ ret' = [raised |-> "none", value |-> done.value]
            /\ items' = done.store
    /\ UNCHANGED <<fp, comparables, prev>>

SaleNext ==
    \/ SaleAddItem
    \/ UpdateItemPricing
    \/ SyncOrdersWithInventory
    \/ Return

SaleSpec == SaleInit /\ [][SaleNext]_vars

(***************************************************************************)
(* The pipeline run over a store of items: every combination of the skip   *)
(* flags, and for the steps that run every outcome.                        *)
(***************************************************************************)
PipelineFlags ==
    [skip_photos : BOOLEAN, skip_ai : BOOLEAN, skip_pricing : BOOLEAN,
     auto_export : BOOLEAN]

\* The outcome of a step that does not run is not drawn.
OutcomesFor(flags) ==
    [photos : IF flags.skip_photos THEN {"processed"} ELSE PhotoOutcomes,
     content : IF flags.skip_ai THEN {"generated"} ELSE ContentOutcomes,
     pricing : IF flags.skip_pricing THEN {"runs"} ELSE PricingOutcomes,
     export : IF flags.auto_export THEN ExportOutcomes ELSE {"exported"}]

\* The draws of the analysis within the pipeline: all samples at the low
\* end or all at the high end.
PipelineDrawsFor(sku, flags, outcome) ==
    IF flags.skip_pricing \/ outcome.pricing = "analysis_raises"
       \/ DrawsFor(sku) = {NoDraw}
    THEN {NoDraw}
    ELSE {draw \in SplitDraws :
             /\ draw.base = 0
             /\ draw.variation[1] = draw.variation[SAMPLE_COUNT]}

RunPipeline ==
    /\ call = NoCall
    /\ \E sku \in Skus, flags \in PipelineFlags :
       \E outcome \in OutcomesFor(flags) :
       \E draw \in PipelineDrawsFor(sku, flags, outcome) :
       \E done \in {run_pipeline(sku, flags, outcome, draw)} :
            /\ call' = [op |-> "run_pipeline", sku |-> sku, flags |-> flags,
                        outcome |-> outcome, draw |-> draw]
            /\ ret' = [raised |-> "none",
                       value |-> [pipeline_results |->
                                     [sku |-> done.sku,
                                      steps_completed |-> done.steps_completed,
                                      steps_skipped |-> done.steps_skipped,
                                      errors |-> done.errors,
                                      pricing |-> done.pricing],
                                  echoed |-> done.echoed]]
            /\ items' = done.store
    /\ UNCHANGED <<fp, comparables, prev>>

PipelineNext ==
    \/ SaleAddItem
    \/ RunPipeline
    \/ Return

PipelineSpec == SaleInit /\ [][PipelineNext]_vars

(***************************************************************************)
(* Listings created on the remote service for the item of a store, priced  *)
(* or not.                                                                 *)
(***************************************************************************)
\* The outcome of a request that is not sent is not drawn.
RemoteOutcomes ==
    {remote \in [credentials : BOOLEAN, inventory : InventoryOutcomes,
                 offer : OfferOutcomes, publish : PublishOutcomes] :
        /\ remote.inventory = "raises" => remote.offer = "offer_id"
        /\ remote.offer # "offer_id" => remote.publish = "listing_id"}

PublishInit ==
    /\ fp \in [0..1 -> BOOLEAN]
    /\ \E item \in SaleItems, suggested_price \in OfferedPrices :
          items = <<[item EXCEPT !.suggested_price = suggested_price]>>
    /\ comparables = <<>>
    /\ call = NoCall
    /\ ret = NoRet
    /\ prev = NoCall

CreateEbayListingFromSku ==
    /\ call = NoCall
    /\ \E sku \in Skus, client_given \in BOOLEAN, remote \in RemoteOutcomes :
        /\ client_given => remote.credentials
        /\ call' = [op |-> "create_ebay_listing_from_sku", sku |-> sku,
                    client_given |-> client_given, remote |-> remote]
        /\ ret' = create_ebay_listing_from_sku(sku, client_given, remote)
    /\ UNCHANGED <<fp, items, comparables, prev>>

PublishNext ==
    \/ CreateEbayListingFromSku
    \/ Return

PublishSpec == PublishInit /\ [][PublishNext]_vars

(***************************************************************************)
(* Properties.                                                             *)
(***************************************************************************)
StrategySet == {Strategies[i] : i \in 1..Len(Strategies)}

\* r is n / d rounded to the nearest integer (either neighbour on a tie).
Nearest(r, n, d) == 2 * Abs(r * d - n) <= d

Suggested == call.op = "calculate_pricing_suggestions"
Scenarios == call.op = "calculate_profit_scenarios"
Sampled == call.op = "generate_sample_comparables"
Analysed == call.op = "analyze_item_pricing" /\ ret.raised = "none"
BrokeEven == call.op = "calculate_break_even_price" /\ ret.raised = "none"

\* C1 (under FnSpec): for every cost > 0, every condition and all market data,
\* each of the three returned (rounded) prices is at least 1.5 * cost.
C1_MarginFloor ==
    (Suggested /\ call.item.cost > 0) =>
        \A k \in StrategySet :
            2 * ret.value.suggested_prices[k] >= 3 * call.item.cost

\* C2 (under FnSpec), as stated: the reported net_profit equals
\* price - cost - (price * 0.10 + price * 0.029 + 0.30) exactly.
C2_NetProfitExact ==
    Scenarios =>
        \A i \in 1..Len(ret.value) :
            LET p == ret.value[i].price
            IN  1000 * ret.value[i].profit.net_profit
                = 1000 * (p - call.item.cost) - (100 * p + 29 * p + 30000)

\* C2 (under FnSpec), amended: the reported net_profit is that value rounded
\* to 2 decimals, i.e. within half a cent of it.
C2_NetProfitRounded ==
    Scenarios =>
        \A i \in 1..Len(ret.value) :
            LET p == ret.value[i].price
            IN  Nearest(ret.value[i].profit.net_profit,
                        1000 * (p - call.item.cost) - (100 * p + 29 * p + 30000),
                        1000)

\* C2 witness: a scenario whose exact net profit is not a whole number of
\* cents has been evaluated.
C2_RoundedScenario ==
    /\ Scenarios
    /\ \E i \in 1..Len(ret.value) :
          (871 * ret.value[i].price - 1000 * call.item.cost) % 1000 # 0

\* C3 (under Spec): for an item of cost 0 analyze_item_pricing returns without
\* raising and every profit scenario has roi_percentage 0.
C3_ZeroCostGuard ==
    (call.op = "analyze_item_pricing" /\ ~NotFound(call.sku)
        /\ items[call.sku].cost = 0) =>
        /\ ret.raised = "none"
        /\ Len(ret.value.profit_scenarios) = 3
        /\ \A i \in 1..Len(ret.value.profit_scenarios) :
              ret.value.profit_scenarios[i].profit.roi_percentage = 0

\* C3 witness: a zero-cost item has been analysed against stored comparables,
\* so its scenarios have prices and net profits other than zero.
C3_ZeroCostAnalysed ==
    /\ Analysed
    /\ items[call.sku].cost = 0
    /\ \E i \in 1..Len(ret.value.profit_scenarios) :
          /\ ret.value.profit_scenarios[i].price > 0
          /\ ret.value.profit_scenarios[i].profit.net_profit > 0

\* C4 (under FnSpec): generate_sample_comparables returns exactly 7
\* comparables, each with total_price > 0, for every item and all draws.
C4_SevenPositive ==
    Sampled =>
        /\ Len(ret.value) = 7
        /\ \A i \in 1..Len(ret.value) : ret.value[i].total_price > 0

\* Some stored row's search_term contains one of the item's three terms.
SomeStoredMatch(item) ==
    \E i \in 1..Len(comparables) :
        \/ Contains(comparables[i].search_term, Joined(item.brand, item.name))
        \/ Contains(comparables[i].search_term, item.brand)
        \/ Contains(comparables[i].search_term, item.name)

\* C5 (under Spec): the synthetic generator is used if and only if the three
\* store lookups return nothing, and the result always holds at least one
\* comparable.
C5_SyntheticIffNoStored ==
    (call.op = "analyze_item_pricing" /\ ~NotFound(call.sku)) =>
        /\ ret.raised = "none"
        /\ ret.value.market_data.synthetic <=> ~SomeStoredMatch(items[call.sku])
        /\ ret.value.market_data.total_comparables >= 1
        /\ ret.value.market_data.synthetic =>
              ret.value.market_data.total_comparables = 7

\* C5 witness: the fallback ran although the store holds rows (none of which
\* matches the item).
C5_FallbackBesideStoredRows ==
    /\ Analysed
    /\ comparables # <<>>
    /\ ret.value.market_data.synthetic

\* C6 (under Spec): the market average of every analysis is > 0, so the
\* zero-average branch is never taken inside analyze_item_pricing.
C6_AveragePositive ==
    Analysed => ret.value.market_data.price_range.average > 0

\* C7 (under FnSpec): with market average > 0 the returned prices are
\* max(2*cost, 0.8*average), (median if median > 1.5*cost else 2*cost) and
\* min(1.2*average, 0.9*max), times the condition multiplier, raised to
\* 1.5*cost, rounded to 2 decimals.  (Where median equals 1.5*cost as
\* decimals the float comparison may go either way.)
C7_PricePoints ==
    (Suggested /\ call.market_data.price_range.average > 0) =>
        LET c == call.item.cost
            pr == call.market_data.price_range
            k == condition_multiplier(call.item.condition)
            out == ret.value.suggested_prices
            Final(pre) == Max2(pre * k, 150 * c)
        IN  /\ Nearest(out.conservative, Final(Max2(20 * c, 8 * pr.average)), 100)
            /\ Nearest(out.aggressive,
                       Final(Min2(12 * pr.average, 9 * pr.max)), 100)
            /\ \/ /\ 10 * pr.median >= 15 * c
                  /\ Nearest(out.competitive, Final(10 * pr.median), 100)
               \/ /\ 10 * pr.median <= 15 * c
                  /\ Nearest(out.competitive, Final(20 * c), 100)

\* C7 witness: a call with market data where the median is above 1.5*cost,
\* the aggressive bound is 0.9*max and the floor binds for no price.
C7_MarketPriced ==
    /\ Suggested
    /\ call.item.cost = 500
    /\ call.item.condition = "New"
    /\ call.market_data.price_range =
          [min |-> 750, max |-> 2000, average |-> 2000, median |-> 1000]
    /\ ret.value.suggested_prices =
          [conservative |-> 1600, competitive |-> 1000, aggressive |-> 1800]

\* C8 (under FnSpec): before the floor, each price point of a "Poor" item is
\* exactly half that of the otherwise identical "New" item.
C8_PoorHalfOfNew ==
    (Suggested /\ call.item.condition = "Poor") =>
        \A k \in StrategySet :
            2 * condition_adjusted(call.item, call.market_data)[k]
            = condition_adjusted([call.item EXCEPT !.condition = "New"],
                                 call.market_data)[k]

\* C8 witness: a "Poor" item with positive cost and market average was priced.
C8_PoorPriced ==
    /\ Suggested
    /\ call.item.condition = "Poor"
    /\ call.item.cost > 0
    /\ call.market_data.price_range.average > 0
    /\ condition_adjusted(call.item, call.market_data).aggressive > 0

\* The Fair variant is analysed right after the Good variant, both from
\* synthetic comparables.
FairAfterGood ==
    /\ Analysed
    /\ prev # NoCall
    /\ prev.condition = "Good"
    /\ ret.value.item_info.condition = "Fair"
    /\ prev.synthetic
    /\ ret.value.market_data.synthetic

\* C9 (under VariantSpec), as stated: each price of the Fair analysis is <=
\* the corresponding price of the Good analysis.
C9_FairAtMostGood ==
    FairAfterGood =>
        \A k \in StrategySet :
            ret.value.pricing_analysis.suggested_prices[k] <= prev.suggested_prices[k]

\* C9 (under VariantSpec), amended: that holds when the two analyses drew the
\* same synthetic market data.
C9_FairAtMostGoodSameMarket ==
    (FairAfterGood /\ ret.value.market_data.price_range = prev.price_range) =>
        \A k \in StrategySet :
            ret.value.pricing_analysis.suggested_prices[k] <= prev.suggested_prices[k]

\* C9 witness: both variants analysed on the same market data, with the Fair
\* competitive price strictly below the Good one.
C9_SameMarketCompared ==
    /\ FairAfterGood
    /\ ret.value.market_data.price_range = prev.price_range
    /\ ret.value.pricing_analysis.suggested_prices.competitive
          < prev.suggested_prices.competitive

\* C10 (under Spec): break_even_price is (cost + 0.30) / (1 - 0.129) and
\* break_even_with_margin 1.05 times the unrounded break-even, each rounded
\* to 2 decimals; for cost 10.00 they are 11.83 and 12.42.
C10_BreakEven ==
    BrokeEven =>
        LET c == items[call.sku].cost
        IN  /\ Nearest(ret.value.break_even_price, 1000 * (c + 30), 871)
            /\ Nearest(ret.value.break_even_with_margin, 1050 * (c + 30), 871)
            /\ c = 1000 =>
                  /\ ret.value.break_even_price = 1183
                  /\ ret.value.break_even_with_margin = 1242

\* C10 witness: the break-even price of an item that cost 10.00 was computed.
C10_BrokeEvenAtTen ==
    /\ BrokeEven
    /\ items[call.sku].cost = 1000
    /\ ret.value.break_even_price = 1183

\* The fee model evaluated for the item of the last break-even call at the
\* given price.
NetProfitAt(price) ==
    calculate_profit_scenarios(
        items[call.sku],
        [conservative |-> price, competitive |-> price, aggressive |-> price]
    )[1].profit.net_profit

\* C11 (under BreakEvenSpec), as stated: at the reported break_even_price the
\* fee model reports a net profit of zero, and at every lower price it
\* reports a negative net profit.
C11_BreakEvenZeroAndLowerNegative ==
    BrokeEven =>
        /\ NetProfitAt(ret.value.break_even_price) = 0
        /\ \A p \in 0..(ret.value.break_even_price - 1) : NetProfitAt(p) < 0

\* C11 (under BreakEvenSpec), amended: at the reported break_even_price the
\* reported net profit is zero and the unrounded one is within half a cent
\* of zero; one cent lower the reported net profit is 0 or -0.01; at every
\* price two cents or more below it is negative.
C11_BreakEvenToTheCent ==
    BrokeEven =>
        LET b == ret.value.break_even_price
            c == items[call.sku].cost
        IN  /\ NetProfitAt(b) = 0
            /\ 2 * Abs(871 * b - 1000 * (c + 30)) <= 1000
            /\ b >= 1 => NetProfitAt(b - 1) \in {-1, 0}
            /\ \A p \in 0..(b - 2) : NetProfitAt(p) < 0

\* C11 witness: a break-even price was reported one cent below which the fee
\* model still reports a net profit of zero.
C11_CentBelowStillZero ==
    /\ BrokeEven
    /\ ret.value.break_even_price >= 2
    /\ NetProfitAt(ret.value.break_even_price) = 0
    /\ NetProfitAt(ret.value.break_even_price - 1) = 0
    /\ NetProfitAt(ret.value.break_even_price - 2) < 0

Recommended == call.op = "generate_pricing_recommendations"

\* The positions of the entries of the given kind in the returned list.
EntriesOf(kind) == {i \in 1..Len(ret.value) : ret.value[i].kind = kind}

\* C12 (under FnSpec): the first entry of the returned list, and no other, is
\* the Best ROI line; it names the strategy, price and ROI of a supplied
\* scenario whose roi_percentage is the maximum over all supplied scenarios.
\* (The list is a function of the three arguments: the operator reads nothing
\* else.)
C12_BestRoiFirst ==
    Recommended =>
        /\ EntriesOf("best_roi") = {1}
        /\ \E i \in 1..Len(call.profit_scenarios) :
              /\ ret.value[1].detail
                    = <<call.profit_scenarios[i].strategy,
                        call.profit_scenarios[i].price,
                        call.profit_scenarios[i].profit.roi_percentage>>
              /\ \A j \in 1..Len(call.profit_scenarios) :
                    call.profit_scenarios[j].profit.roi_percentage
                       <= call.profit_scenarios[i].profit.roi_percentage

\* C12 witness: the Best ROI line names the first scenario, whose ROI is
\* strictly above that of the last one.
C12_BestIsNotLast ==
    /\ Recommended
    /\ ret.value[1].detail[1] = "Conservative"
    /\ call.profit_scenarios[3].profit.roi_percentage
          < call.profit_scenarios[1].profit.roi_percentage
    /\ call.profit_scenarios[2].profit.roi_percentage
          < call.profit_scenarios[1].profit.roi_percentage

\* The scenarios of the call whose reported net profit is below the cost.
BelowCost ==
    {i \in 1..Len(call.profit_scenarios) :
        call.profit_scenarios[i].profit.net_profit < call.item.cost}

\* C19 (under FnSpec): the low-profit-margin warning is in the returned list
\* exactly when at least one supplied scenario has net_profit < cost, it
\* occurs once, and it states the number of such scenarios.
C19_LowProfitWarning ==
    Recommended =>
        IF BelowCost = {}
        THEN EntriesOf("low_profit") = {}
        ELSE /\ Cardinality(EntriesOf("low_profit")) = 1
             /\ \A i \in EntriesOf("low_profit") :
                   ret.value[i].detail = <<Cardinality(BelowCost)>>

\* C19 witness: a warning that counts two scenarios, each with a net profit
\* of at least zero and below the cost, while the third is at or above the cost.
C19_WarnedAboveZero ==
    /\ Recommended
    /\ Cardinality(BelowCost) = 2
    /\ \A i \in BelowCost : call.profit_scenarios[i].profit.net_profit >= 0
    /\ \E i \in EntriesOf("low_profit") : ret.value[i].detail = <<2>>

\* The keys of the tips table.
TipKeys ==
    { <<"c", "l", "o", "t", "h", "i", "n", "g">>,
      <<"e", "l", "e", "c", "t", "r", "o", "n", "i", "c", "s">>,
      <<"h", "o", "m", "e">>, <<"b", "o", "o", "k", "s">>,
      <<"t", "o", "y", "s">> }

\* C20 (under FnSpec): an item whose lower-cased category is one of clothing,
\* electronics, home, books, toys receives the 3 tips of that category and no
\* generic tip; every other category receives the 2 generic tips and no
\* category tip; so every list holds 3 or 2 tips.
C20_CategoryTips ==
    Recommended =>
        LET key == Lower(call.item.category)
            tips == EntriesOf("category_tip")
            generic == EntriesOf("generic_tip")
        IN  /\ key \in TipKeys =>
                /\ generic = {}
                /\ {ret.value[i].detail : i \in tips}
                      = {<<key, 1>>, <<key, 2>>, <<key, 3>>}
                /\ Cardinality(tips) = 3
            /\ key \notin TipKeys =>
                /\ tips = {}
                /\ {ret.value[i].detail : i \in generic} = {<<1>>, <<2>>}
                /\ Cardinality(generic) = 2
            /\ Cardinality(tips \cup generic) \in {2, 3}

\* C20 witness: an item entered under "Clothing" received the three clothing
\* tips.
C20_ClothingTips ==
    /\ Recommended
    /\ call.item.category = <<"C", "l", "o", "t", "h", "i", "n", "g">>
    /\ Cardinality(EntriesOf("category_tip")) = 3
    /\ \A i \in EntriesOf("category_tip") : ret.value[i].detail[1] = clothing

BucketNames ==
    <<clothing, electronics, home_garden, sports_outdoors, collectibles>>

\* The least element of a set of bucket numbers, the clothing bucket if the
\* set is empty.
FirstOr1(hits) == IF hits = {} THEN 1 ELSE CHOOSE i \in hits : \A j \in hits : i <= j

\* The bucket as C15 states it: the first whose name occurs in the
\* lower-cased category.
BucketAsStated(category) ==
    FirstOr1({i \in 1..Len(BucketNames) :
                 Contains(Lower(category), BucketNames[i])})

\* The bucket the code takes: the first whose name occurs in the lower-cased
\* category or contains it.
BucketEitherWay(category) ==
    FirstOr1({i \in 1..Len(BucketNames) :
                 \/ Contains(Lower(category), BucketNames[i])
                 \/ Contains(BucketNames[i], Lower(category))})

\* The result of the last call is the one computed from bucket b: the
\* zero-average prices from its multipliers, the synthetic prices from its
\* range.
PricedWithBucket(b) ==
    /\ (Suggested /\ call.market_data.price_range.average = 0) =>
          \A k \in StrategySet :
              Nearest(ret.value.suggested_prices[k],
                      Max2(call.item.cost * category_multipliers[b][k]
                              * condition_multiplier(call.item.condition),
                           150 * call.item.cost),
                      100)
    /\ Sampled =>
          \A i \in 1..Len(ret.value) :
              Nearest(ret.value[i].total_price,
                      call.item.cost
                         * UniformAt(category_ranges[b].low,
                                     category_ranges[b].high, call.draw.base)
                         * UniformAt(8, 14, call.draw.variation[i]),
                      100 * DrawSteps * DrawSteps)

\* C15 (under FnSpec), as stated: both callers price with the first bucket
\* whose name occurs as a case-insensitive substring of the item's category,
\* and with the clothing bucket when the category contains no bucket name.
C15_BucketNameInCategory ==
    (Suggested \/ Sampled) => PricedWithBucket(BucketAsStated(call.item.category))

\* C15 (under FnSpec), amended: both callers price with the first bucket
\* whose name occurs in the lower-cased category or contains the lower-cased
\* category as a substring, and with the clothing bucket when there is none
\* (an empty category is priced with the clothing bucket).
C15_BucketEitherWay ==
    (Suggested \/ Sampled) => PricedWithBucket(BucketEitherWay(call.item.category))

\* C15 witness: an item of category "home", which contains no bucket name,
\* was priced at zero average with the home & garden multipliers (3, 4, 5).
C15_HomePricedAsHomeGarden ==
    /\ Suggested
    /\ call.market_data.price_range.average = 0
    /\ call.item.category = <<"h", "o", "m", "e">>
    /\ call.item.cost = 500
    /\ call.item.condition = "New"
    /\ ret.value.suggested_prices
          = [conservative |-> 1500, competitive |-> 2000, aggressive |-> 2500]

\* The multipliers of C16, in tenths, by bucket number.
StatedMultipliers ==
    << [conservative |-> 40, competitive |-> 50, aggressive |-> 60],
       [conservative |-> 20, competitive |-> 30, aggressive |-> 40],
       [conservative |-> 30, competitive |-> 40, aggressive |-> 50],
       [conservative |-> 35, competitive |-> 45, aggressive |-> 60],
       [conservative |-> 40, competitive |-> 60, aggressive |-> 80] >>

\* C16 (under FnSpec): at market average 0 the prices before the condition
\* adjustment are cost times the fixed multipliers of the item's bucket,
\* clothing (4,5,6), electronics (2,3,4), home & garden (3,4,5), sports &
\* outdoors (3.5,4.5,6), collectibles (4,6,8); the returned prices are those,
\* condition-adjusted, floored and rounded; the returned market_position
\* values are all 0.
C16_FixedMultipliers ==
    (Suggested /\ call.market_data.price_range.average = 0) =>
        LET c == call.item.cost
            m == StatedMultipliers[BucketEitherWay(call.item.category)]
        IN  /\ price_points(call.item, call.market_data)
                  = [k \in StrategySet |-> c * m[k]]
            /\ \A k \in StrategySet :
                  Nearest(ret.value.suggested_prices[k],
                          Max2(c * m[k] * condition_multiplier(call.item.condition),
                               150 * c),
                          100)
            /\ ret.value.market_position
                  = [below_market |-> 0, at_market |-> 0, above_market |-> 0]

\* C16 witness: a "New" sports & outdoors item of cost 10.00 was priced at
\* zero average at 35.00, 45.00 and 60.00.
C16_SportsAtZeroAverage ==
    /\ Suggested
    /\ call.market_data.price_range.average = 0
    /\ BucketEitherWay(call.item.category) = 4
    /\ call.item.cost = 1000
    /\ call.item.condition = "New"
    /\ ret.value.suggested_prices
          = [conservative |-> 3500, competitive |-> 4500, aggressive |-> 6000]
    /\ ret.value.market_position.at_market = 0

\* The multiplier of C17, in tenths.
StatedConditionMultiplier(condition) ==
    IF condition = "New" THEN 10
    ELSE IF condition = "Excellent" THEN 9
    ELSE IF condition = "Very Good" THEN 8
    ELSE IF condition = "Good" THEN 7
    ELSE IF condition = "Fair" THEN 6
    ELSE IF condition = "Poor" THEN 5
    ELSE 7

\* C17 (under FnSpec): the returned prices are the price points times New=1.0,
\* Excellent=0.9, Very Good=0.8, Good=0.7, Fair=0.6, Poor=0.5 and 0.7 for
\* every other condition, floored and rounded; an item in any other condition,
\* "New with Tags" and "New without Tags" included, gets the result of the
\* same item in condition "Good", with no price above the "Excellent" one.
C17_ConditionMultipliers ==
    Suggested =>
        LET c == call.item.cost
            pre == price_points(call.item, call.market_data)
            As(condition) ==
                calculate_pricing_suggestions(
                    [call.item EXCEPT !.condition = condition], call.market_data)
        IN  /\ \A k \in StrategySet :
                  Nearest(ret.value.suggested_prices[k],
                          Max2(pre[k] * StatedConditionMultiplier(call.item.condition),
                               150 * c),
                          100)
            /\ call.item.condition
                  \notin {"New", "Excellent", "Very Good", "Good", "Fair", "Poor"} =>
                  /\ ret.value = As("Good")
                  /\ \A k \in StrategySet :
                        ret.value.suggested_prices[k]
                           <= As("Excellent").suggested_prices[k]

\* C17 witness: a "New with Tags" item was priced at 0.7 of the price points
\* (16.00, 10.00, 18.00), the competitive price raised to the floor 7.50.
C17_NewWithTagsAsGood ==
    /\ Suggested
    /\ call.item.condition = "New with Tags"
    /\ call.item.cost = 500
    /\ call.market_data.price_range
          = [min |-> 750, max |-> 2000, average |-> 2000, median |-> 1000]
    /\ ret.value.suggested_prices
          = [conservative |-> 1120, competitive |-> 750, aggressive |-> 1260]
    /\ ret.value.condition_adjustment = "-30%"

\* C18 (under FnSpec), as stated: in every returned scenario the reported
\* fields satisfy total_fees = listing_fee + final_value_fee + paypal_fee,
\* gross_profit = price - cost and net_profit = gross_profit - total_fees.
C18_ReportedIdentities ==
    Scenarios =>
        \A i \in 1..Len(ret.value) :
            LET f == ret.value[i].fees
                p == ret.value[i].profit
            IN  /\ f.total_fees = f.listing_fee + f.final_value_fee + f.paypal_fee
                /\ p.gross_profit = ret.value[i].price - call.item.cost
                /\ p.net_profit = p.gross_profit - f.total_fees

\* C18 (under FnSpec), amended: in every returned scenario gross_profit is
\* price - cost; total_fees and net_profit are rounded on their own from the
\* unrounded sums, so total_fees is within one cent of listing_fee +
\* final_value_fee + paypal_fee and net_profit within one cent of
\* gross_profit - total_fees.
C18_IdentitiesToTheCent ==
    Scenarios =>
        \A i \in 1..Len(ret.value) :
            LET f == ret.value[i].fees
                p == ret.value[i].profit
                price == ret.value[i].price
            IN  /\ p.gross_profit = price - call.item.cost
                /\ Nearest(f.total_fees, 129 * price + 30000, 1000)
                /\ Nearest(p.net_profit,
                           1000 * p.gross_profit - (129 * price + 30000), 1000)
                /\ Abs(f.total_fees
                       - (f.listing_fee + f.final_value_fee + f.paypal_fee)) <= 1
                /\ Abs(p.net_profit - (p.gross_profit - f.total_fees)) <= 1

\* C18 witness: a scenario at price 10.04 reports the fees 0.00, 1.00 and
\* 0.59 and the total 1.60.
C18_FeesOffByACent ==
    /\ Scenarios
    /\ \E i \in 1..Len(ret.value) :
          /\ ret.value[i].price = 1004
          /\ ret.value[i].fees
                = [listing_fee |-> 0, final_value_fee |-> 100,
                   paypal_fee |-> 59, total_fees |-> 160]

TimeRule == call.op = "time_based_adjustments"

CallsBySku ==
    {"analyze_item_pricing", "calculate_break_even_price",
     "suggest_price_adjustments", "get_pricing_history"}

\* C14 (under Spec): a call of analyze_item_pricing,
\* calculate_break_even_price, suggest_price_adjustments or
\* get_pricing_history with a SKU that no item has raises ValueError, returns
\* nothing else (no market data was looked up), consumes no random draw
\* (nothing was generated) and leaves the item store and the comparable
\* store as they were.
C14_ItemNotFound ==
    [][(call = NoCall /\ call'.op \in CallsBySku /\ NotFound(call'.sku)) =>
          /\ ret' = [raised |-> "ValueError"]
          /\ "draw" \in DOMAIN call' => call'.draw = NoDraw
          /\ items' = items
          /\ comparables' = comparables]_vars

\* C14 witness: suggest_price_adjustments raised for an unknown SKU while the
\* item store holds an item and the comparable store holds a row that
\* matches that item.
C14_UnknownSkuAmongStored ==
    /\ call.op = "suggest_price_adjustments"
    /\ NotFound(call.sku)
    /\ ret = [raised |-> "ValueError"]
    /\ items # <<>>
    /\ \E s \in DOMAIN items : SomeStoredMatch(items[s])

\* The operations that end in get_market_comparables.
Analyses == {"analyze_item_pricing", "suggest_price_adjustments"}

\* C21 (under ListingSpec): a call of analyze_item_pricing or
\* suggest_price_adjustments leaves the comparable store (and the item
\* store) as it was, whether or not synthetic comparables were generated;
\* so whenever no stored row matches the item, every such call takes the
\* synthetic fallback again.
C21_AnalysesDoNotStore ==
    [][(call = NoCall /\ call'.op \in Analyses) =>
          /\ comparables' = comparables
          /\ items' = items
          /\ (~NotFound(call'.sku) /\ ~SomeStoredMatch(items[call'.sku])) =>
                /\ call'.op = "analyze_item_pricing" =>
                      /\ ret'.value.market_data.synthetic
                      /\ ret'.value.market_data.total_comparables = SAMPLE_COUNT
                /\ call'.draw \in SplitDraws]_vars

\* C21 witness: a price-adjustment call priced the item from synthetic
\* comparables (a market average above zero) while the store holds only a
\* row that does not match it.
C21_SyntheticBesideUnmatchedRow ==
    /\ call.op = "suggest_price_adjustments"
    /\ ret.raised = "none"
    /\ ret.value.market_context.average > 0
    /\ Len(comparables) = 1
    /\ ~SomeStoredMatch(items[call.sku])

LookedUp == call.op = "get_market_comparables"

\* The stored rows, in store order, whose search_term contains the term, cut
\* after the first `limit` of them.
FirstMatching(term, limit) ==
    LET idx == {i \in 1..Len(comparables) :
                   /\ Contains(comparables[i].search_term, term)
                   /\ Cardinality({j \in 1..(i - 1) :
                          Contains(comparables[j].search_term, term)}) < limit}
    IN  [k \in 1..Cardinality(idx) |->
            comparables[CHOOSE i \in idx :
                           Cardinality({j \in idx : j < i}) = k - 1]]

Aggregated == call.op = "price_range"

\* C23 (under FnSpec): price_range is all zero for an empty list; otherwise
\* min and max are the least and greatest price, average the sum over the
\* count and median the middle price (the mean of the two middle prices for
\* an even count), both rounded to 2 decimals; min <= median <= max and
\* min <= average <= max; for [10, 20, 30] it is {10, 30, 20.0, 20.0}.
C23_PriceRange ==
    Aggregated =>
        LET ps == call.prices
            n == Len(ps)
            r == ret.value
            Below(x) == Cardinality({i \in 1..n : ps[i] < x})
            AtMost(x) == Cardinality({i \in 1..n : ps[i] <= x})
            \* x is the k-th smallest price
            Kth(x, k) == Below(x) < k /\ k <= AtMost(x)
        IN  /\ n = 0 => r = [min |-> 0, max |-> 0, average |-> 0, median |-> 0]
            /\ n > 0 =>
                  /\ \E i \in 1..n : r.min = ps[i]
                  /\ \E i \in 1..n : r.max = ps[i]
                  /\ \A i \in 1..n : r.min <= ps[i] /\ ps[i] <= r.max
                  /\ Nearest(r.average, SumSeq(ps), n)
                  /\ n % 2 = 1 => Kth(r.median, (n + 1) \div 2)
                  /\ n % 2 = 0 =>
                        \E a, b \in {ps[i] : i \in 1..n} :
                            /\ Kth(a, n \div 2)
                            /\ Kth(b, n \div 2 + 1)
                            /\ Nearest(r.median, a + b, 2)
                  /\ r.min <= r.median /\ r.median <= r.max
                  /\ r.min <= r.average /\ r.average <= r.max
            /\ ps = <<1000, 2000, 3000>> =>
                  r = [min |-> 1000, max |-> 3000, average |-> 2000,
                       median |-> 2000]

\* C23 witness: the statistics of the unsorted list [30, 10, 20].
C23_ThreePrices ==
    /\ Aggregated
    /\ call.prices = <<3000, 1000, 2000>>
    /\ ret.value = [min |-> 1000, max |-> 3000, average |-> 2000, median |-> 2000]

\* suggest_price_adjustments returned its full result, not the message.
Adjusted ==
    /\ call.op = "suggest_price_adjustments"
    /\ ret.raised = "none"
    /\ "suggestions" \in DOMAIN ret.value

\* C24 (under ListingSpec): the call carries no days_listed; every full
\* result reports days_listed = 14, holds no price_reduction or
\* aggressive_reduction and at most one suggestion, a market_adjustment to
\* the market average, which is there if market average > 0 and listed price
\* > 1.2 * average and only if market average > 0 and listed price >= 1.2 *
\* average (at equality the float comparison decides).
C24_DaysListedFixed ==
    /\ call.op = "suggest_price_adjustments" => DOMAIN call = {"op", "sku", "draw"}
    /\ Adjusted =>
        LET p == ret.value.current_price
            avg == ret.value.market_context.average
            out == ret.value.suggestions
        IN  /\ ret.value.days_listed = 14
            /\ items[call.sku].listed_price = <<p>>
            /\ Len(out) <= 1
            /\ \A i \in 1..Len(out) :
                  /\ out[i].type = "market_adjustment"
                  /\ out[i].urgency = "medium"
                  /\ out[i].suggested_price = avg
                  /\ avg > 0
                  /\ 10 * p >= 12 * avg
            /\ (avg > 0 /\ 10 * p > 12 * avg) => Len(out) = 1

\* C24 witness: an item listed at 25.00 against one stored comparable at
\* 20.00 got the single suggestion to go to 20.00.
C24_MarketAdjustmentOnly ==
    /\ Adjusted
    /\ ret.value.current_price = 2500
    /\ ret.value.market_context.average = 2000
    /\ Len(ret.value.suggestions) = 1
    /\ ret.value.suggestions[1].suggested_price = 2000
    /\ ret.value.suggestions[1].percent_above \in {24, 25}

\* C25 (under FnSpec): for every item and market data the returned prices
\* satisfy conservative <= competitive <= aggressive.
C25_PriceOrdering ==
    Suggested =>
        /\ ret.value.suggested_prices.conservative
              <= ret.value.suggested_prices.competitive
        /\ ret.value.suggested_prices.competitive
              <= ret.value.suggested_prices.aggressive

\* The highest of the prices of the supplied scenarios.
HighestPrice ==
    CHOOSE p \in {call.profit_scenarios[i].price : i \in 1..Len(call.profit_scenarios)} :
        \A i \in 1..Len(call.profit_scenarios) : call.profit_scenarios[i].price <= p

\* The first scenario carrying the strategy, price and ROI of the Best ROI line.
BestReported ==
    CHOOSE i \in 1..Len(call.profit_scenarios) :
        /\ ret.value[1].detail
              = <<call.profit_scenarios[i].strategy,
                  call.profit_scenarios[i].price,
                  call.profit_scenarios[i].profit.roi_percentage>>
        /\ \A j \in 1..(i - 1) :
              call.profit_scenarios[j].strategy # call.profit_scenarios[i].strategy

\* C26 (under FnSpec), as stated: for cost > 0 the Best ROI line names a
\* scenario at the highest of the three prices, the earliest of those whose
\* rounded ROI is the same.
C26_BestRoiAtHighestPrice ==
    (Recommended /\ call.item.cost > 0) =>
        /\ call.profit_scenarios[BestReported].price = HighestPrice
        /\ \A j \in 1..(BestReported - 1) :
              call.profit_scenarios[j].profit.roi_percentage
                 # call.profit_scenarios[BestReported].profit.roi_percentage

\* C26 (under FnSpec), amended: for cost > 0 the rounded ROI never decreases
\* with the price, the Best ROI line carries the rounded ROI of the
\* highest-priced scenario and names the earliest scenario with that rounded
\* ROI; its price is the highest one, or a lower one whose ROI rounds to the
\* same 1-decimal value.
C26_BestRoiOfHighestPrice ==
    (Recommended /\ call.item.cost > 0) =>
        LET ps == call.profit_scenarios
            b == BestReported
        IN  /\ \A i, j \in 1..Len(ps) :
                  ps[i].price <= ps[j].price =>
                      ps[i].profit.roi_percentage <= ps[j].profit.roi_percentage
            /\ \A i \in 1..Len(ps) :
                  ps[i].price = HighestPrice =>
                      ps[i].profit.roi_percentage = ps[b].profit.roi_percentage
            /\ \A j \in 1..(b - 1) :
                  ps[j].profit.roi_percentage < ps[b].profit.roi_percentage
            /\ ps[b].price <= HighestPrice

\* C26 witness: at cost 10.00 the conservative price 10.03 and the
\* competitive price 10.04 have the same rounded ROI, and the Best ROI line
\* names the conservative scenario at 10.03.
C26_TieBelowHighestPrice ==
    /\ Recommended
    /\ call.item.cost = 1000
    /\ call.profit_scenarios[1].price = 1003
    /\ call.profit_scenarios[2].price = 1004
    /\ call.profit_scenarios[3].price = 500
    /\ ret.value[1].detail[1] = "Conservative"
    /\ ret.value[1].detail[2] = 1003

(***************************************************************************)
(* C27, C28: the sale of an item.                                          *)
(***************************************************************************)
SaleCalls == {"update_item_pricing", "sync_orders_with_inventory"}

\* The rows whose fee and profit fields were computed from their sold_price.
Charged == {sku \in DOMAIN items : Truthy(items[sku].sold_price)}

\* What calculate_profit_scenarios reports for the sale of a row.
Reported(item) == profit_scenario("competitive", item.sold_price[1], item.cost)

\* C27 (under SaleSpec), as stated: the fees, the gross profit, the net
\* profit and the ROI that _calculate_fees_and_profit stores on a sold item
\* equal the ones calculate_profit_scenarios reports for the same price and
\* cost, an ROI of 0 for a cost of zero included.
C27_FeeImplementationsAgree ==
    \A sku \in Charged :
        LET item == items[sku]
            reported == Reported(item)
        IN  /\ item.listing_fee = Some(reported.fees.listing_fee * 1000)
            /\ item.final_value_fee = Some(reported.fees.final_value_fee * 1000)
            /\ item.paypal_fee = Some(reported.fees.paypal_fee * 1000)
            /\ item.total_fees = Some(reported.fees.total_fees * 1000)
            /\ item.gross_profit = Some(reported.profit.gross_profit * 1000)
            /\ item.net_profit = Some(reported.profit.net_profit * 1000)
            /\ item.roi_percentage # None
            /\ item.roi_percentage[1].num
                   = reported.profit.roi_percentage * item.roi_percentage[1].den

\* C27 (under SaleSpec), how the two do relate for a sale price above zero:
\* the values _calculate_fees_and_profit assigns are the unrounded results,
\* and calculate_profit_scenarios reports each of them rounded: the fees and
\* the net profit to the nearest cent, the ROI to the nearest tenth of a
\* percent; the listing fee and the gross profit are equal.  For a cost of
\* zero calculate_profit_scenarios reports an ROI of 0 while
\* _calculate_fees_and_profit leaves roi_percentage as it was, unset.
C27_ReportedIsStoredRounded ==
    \A sku \in Charged :
        LET item == items[sku]
            reported == Reported(item)
        IN  /\ item.listing_fee = Some(reported.fees.listing_fee * 1000)
            /\ Nearest(reported.fees.final_value_fee,
                       item.final_value_fee[1], 1000)
            /\ Nearest(reported.fees.paypal_fee, item.paypal_fee[1], 1000)
            /\ Nearest(reported.fees.total_fees, item.total_fees[1], 1000)
            /\ item.gross_profit = Some(reported.profit.gross_profit * 1000)
            /\ Nearest(reported.profit.net_profit, item.net_profit[1], 1000)
            /\ item.cost > 0 =>
                  /\ item.roi_percentage # None
                  /\ Nearest(reported.profit.roi_percentage,
                             item.roi_percentage[1].num,
                             item.roi_percentage[1].den)
            /\ item.cost = 0 =>
                  /\ item.roi_percentage = None
                  /\ reported.profit.roi_percentage = 0

\* C27: the order synchronisation sold an item that cost nothing for
\* 10.04, whose final value fee is stored as 1.0040 and reported as 1.00.
C27_SoldForNothingPaid ==
    /\ call.op = "sync_orders_with_inventory"
    /\ \E sku \in Charged :
          /\ items[sku].cost = 0
          /\ items[sku].sold_price = Some(1004)
          /\ items[sku].final_value_fee = Some(100400)
          /\ Reported(items[sku]).fees.final_value_fee = 100

\* The rows marked as sold.
SoldItems == {sku \in DOMAIN items : items[sku].status = "sold"}

\* C28 (under SaleSpec), the invariant as stated: every item with status
\* "sold" has a sold_price and a sold_at, and its total_fees, gross_profit
\* and net_profit are the ones of that sold_price.
C28_SoldItemsAreCharged ==
    \A sku \in SoldItems :
        LET item == items[sku] IN
        /\ item.sold_price # None
        /\ item.sold_at # None
        /\ item = calculate_fees_and_profit(item)
        /\ item.total_fees # None
        /\ item.gross_profit # None
        /\ item.net_profit # None

\* The fields of a row that a sale sets.
SaleFields(item) ==
    <<item.status, item.sold_price, item.sold_at, item.listing_fee,
      item.final_value_fee, item.paypal_fee, item.total_fees,
      item.gross_profit, item.net_profit, item.roi_percentage>>

\* C28 (under SaleSpec), second part: update_item_pricing given no sold_price
\* leaves the sale fields of every row as they were.
C28_PriceUpdatesKeepSaleFields ==
    [][(call = NoCall /\ call'.op = "update_item_pricing"
        /\ call'.sold_price = None) =>
          /\ DOMAIN items' = DOMAIN items
          /\ \A sku \in DOMAIN items :
                SaleFields(items'[sku]) = SaleFields(items[sku])]_vars

\* C28 (under SaleSpec), third part: update_item_pricing for a SKU that no
\* item has returns False and leaves the store as it was.
C28_UnknownSkuChangesNothing ==
    [][(call = NoCall /\ call'.op = "update_item_pricing"
        /\ NotFound(call'.sku)) =>
          /\ ret'.value = FALSE
          /\ items' = items]_vars

\* An order without a total marked the item as sold at 0 and charged nothing.
C28_SoldAtZeroUncharged ==
    /\ call.op = "sync_orders_with_inventory"
    /\ \E sku \in SoldItems :
          /\ items[sku].sold_price = Some(0)
          /\ items[sku].total_fees = None

(***************************************************************************)
(* C29: run_pipeline.                                                      *)
(***************************************************************************)
Occurrences(seq, x) == Cardinality({i \in DOMAIN seq : seq[i] = x})

PipelineSteps == {"photo_processing", "ai_content", "pricing_analysis"}
ErrorLabel ==
    [photo_processing |-> "Photo processing", ai_content |-> "AI content",
     pricing_analysis |-> "Pricing analysis"]

\* The banners of the steps that the flags do not skip, in order.
BannersOf(flags) ==
    (IF flags.skip_photos THEN <<>> ELSE <<"Step 1">>)
    \o (IF flags.skip_ai THEN <<>> ELSE <<"Step 2">>)
    \o (IF flags.skip_pricing THEN <<>> ELSE <<"Step 3">>)
    \o (IF flags.auto_export THEN <<"Step 4">> ELSE <<>>)

\* C29 (under PipelineSpec): for every combination of the skip flags and of
\* steps that raise, run_pipeline records each of photo_processing,
\* ai_content and pricing_analysis exactly once in steps_completed,
\* steps_skipped or errors together; every step that is not skipped is
\* started whatever happened to the steps before it; and the store changes
\* only when pricing_analysis is in steps_completed, and then only in the
\* suggested_price of the item, which becomes the competitive price of the
\* analysis.
C29_PipelineSteps ==
    [][(call = NoCall /\ call'.op = "run_pipeline") =>
          LET results == ret'.value.pipeline_results
              analysis == analyze_item_pricing(call'.sku, call'.draw)
          IN  /\ \A step \in PipelineSteps :
                    Occurrences(results.steps_completed, step)
                    + Occurrences(results.steps_skipped, step)
                    + Occurrences(results.errors, ErrorLabel[step]) = 1
              /\ ret'.value.echoed = BannersOf(call'.flags)
              /\ IF Occurrences(results.steps_completed, "pricing_analysis") = 1
                 THEN /\ analysis.raised = "none"
                      /\ items' =
                            [items EXCEPT ![call'.sku].suggested_price =
                                Some(analysis.value.pricing_analysis
                                        .suggested_prices.competitive)]
                 ELSE items' = items]_vars

\* C29 witness: the photo step and the content step both raised, the pricing
\* step ran all the same and stored the competitive price on the item.
C29_PricedAfterTwoFailures ==
    /\ call.op = "run_pipeline"
    /\ ret.value.pipeline_results.errors = <<"Photo processing", "AI content">>
    /\ ret.value.pipeline_results.steps_completed = <<"pricing_analysis">>
    /\ ret.value.pipeline_results.steps_skipped = <<>>
    /\ ret.value.echoed = <<"Step 1", "Step 2", "Step 3">>
    /\ items[call.sku].suggested_price
          = Some(ret.value.pipeline_results.pricing[1].suggested_price)
    /\ Truthy(items[call.sku].suggested_price)

(***************************************************************************)
(* C30: create_ebay_listing_from_sku.                                      *)
(***************************************************************************)
RequestNames(requests) == [i \in DOMAIN requests |-> requests[i].request]

RemoteSteps == <<"create_inventory_item", "create_offer", "publish_offer">>

\* C30 (under PublishSpec): for an item of the store, the requests sent are
\* a prefix of create_inventory_item, create_offer, publish_offer, the first
\* always sent; publish_offer is sent only when the two requests before it
\* succeeded and create_offer returned an offerId, and then for that offerId;
\* the result has success True exactly when all three requests completed
\* without raising (which needs the offerId), and success False, with no
\* exception raised, in every other case; and neither the item store nor the
\* comparable store is written.
C30_ListingSteps ==
    [][(call = NoCall /\ call'.op = "create_ebay_listing_from_sku"
        /\ ~NotFound(call'.sku)
        /\ (call'.client_given \/ call'.remote.credentials)) =>
          LET remote == call'.remote
              requests == ret'.requests
              names == RequestNames(requests)
              all_completed ==
                  /\ remote.inventory = "created"
                  /\ remote.offer = "offer_id"
                  /\ remote.publish # "raises"
          IN  /\ Len(names) >= 1
              /\ names = SubSeq(RemoteSteps, 1, Len(names))
              /\ Len(names) = 3 <=>
                    (remote.inventory = "created" /\ remote.offer = "offer_id")
              /\ Len(names) >= 2 <=> remote.inventory = "created"
              /\ Len(names) = 3 => requests[3].offer_id = OfferIdOf(call'.sku)
              /\ ret'.raised = "none"
              /\ ret'.value.success <=> all_completed
              /\ ret'.value.success => names = RemoteSteps
              /\ items' = items
              /\ comparables' = comparables]_vars

\* C30 witness: create_offer came back without an offerId; publish_offer was
\* not sent and the result is a failure, not an exception.
C30_NoOfferIdNotPublished ==
    /\ call.op = "create_ebay_listing_from_sku"
    /\ call.remote.inventory = "created"
    /\ call.remote.offer = "no_offer_id"
    /\ RequestNames(ret.requests) = <<"create_inventory_item", "create_offer">>
    /\ ret.raised = "none"
    /\ ~ret.value.success

====
